---- MODULE Spec2Model ----
(***************************************************************************)
(* Mermaid Studio (src/mermaid_studio.py, src/code_editor.py,              *)
(* src/preview_pane.py): the document life cycle, the recent-files list    *)
(* and the render pipeline of the main window, as a state machine.         *)
(*                                                                         *)
(* The Tk event loop runs every UI handler to completion on one thread, so *)
(* a handler is one action.  A render worker is a thread of its own: each  *)
(* of its reads and writes of shared attributes that the UI thread can     *)
(* interleave with is a step of its own.  The file system and the external *)
(* renderer are the environment: what a dialog, a read, a write or the     *)
(* subprocess returns is an input drawn with \E.                           *)
(***************************************************************************)
EXTENDS Integers, Sequences, FiniteSets, TLC

----------------------------------------------------------------------------
(* Bounds and program constants *)

\* number of distinct file paths a dialog can return (documents on disk)
NPaths == 2
\* number of distinct file paths of the recent-files specification
NRecentPaths == 6
\* render worker threads that can be alive at once
MaxWorkers == 2
\* identifiers handed out by after(); a timer's id is free again once it has
\* fired or was cancelled and nobody holds the handle
MaxTimerId == 2
\* the cap of the MRU list, mermaid_studio.py:574
MaxRecent == 5
\* the delay of the change callback, code_editor.py:233, in ms
CHANGE_DELAY == 250
\* the step of the clock, in ms
TickMs == 50

None == 0
Paths == 1..NPaths
RecentPaths == 1..NRecentPaths
WorkerIds == 1..MaxWorkers
TimerIds == 1..MaxTimerId

\* the characters buffers are made of; " " and "\n" are whitespace
Whitespace == {" ", "\n"}
\* DEFAULT_SAMPLE, abstracted to one diagram character and its final newline
DEFAULT_SAMPLE == <<"S", "\n">>
\* the buffers a user edit or a file on disk can hold
Texts == {<<>>, <<" ">>, <<"A">>, <<"B">>}

----------------------------------------------------------------------------
(* State *)

VARIABLES
    text,                     \* editor buffer, editor.get()
    insert,                   \* the insert mark (caret): characters before it
    sel,                      \* the "sel" tag: positions of the selected characters
    match_tag,                \* the "match" tag: positions of highlighted brackets
    edit_hist,                \* history: what the last editing command was given
    current_file,             \* backing path or None
    title,                    \* window title: a file name or "Untitled"
    dirty,                    \* self.dirty
    recent_files,             \* self.recent_files, a sequence of paths
    change_scheduled,         \* editor._change_scheduled (250 ms timer pending)
    change_due,               \* ms until the timer of _schedule_change_callback fires
    since_event,              \* history: ms since the last edit event, up to 250
    destroyed,                \* the window was destroyed by Exit
    mmdc_path,                \* renderer executable known (TRUE) or None (FALSE)
    auto_render_var,          \* the Auto render checkbox
    auto_render_job,          \* handle of the auto-render timer, or None
    timers,                   \* auto-render timers pending in the Tk event loop
    pending_autorender,       \* self.pending_autorender
    last_rendered_hash,       \* self.last_rendered_hash
    code_hash_being_rendered, \* self._code_hash_being_rendered
    last_png,                 \* self.last_png
    render_lock,              \* None when free, else the worker holding it
    workers,                  \* the render worker threads
    preview_src,              \* PreviewPane._src_image: the image shown
    temp_files,               \* owners of the temporary input files that exist
    error_tags,               \* the editor's syntax_error_line and _col markers
    preview,                  \* PreviewPane: zoom, fit zoom, canvas and image size
    current_name,             \* ThemeManager.current_name: "light" or "dark"
    theme_file,               \* what theme.json holds
    diagram_theme,            \* the diagram render theme of the Theme Manager
    sketch_mode,              \* the sketch-style flag of the Theme Manager
    theme_hist,               \* history: the last Theme Manager call
    last                      \* history: what the last step did

docVars == <<text, insert, sel, match_tag, edit_hist, current_file, title, dirty,
            recent_files, change_scheduled, change_due, since_event, destroyed>>
renderVars == <<mmdc_path, auto_render_var, auto_render_job, timers, pending_autorender,
                last_rendered_hash, code_hash_being_rendered, last_png, render_lock,
                workers, preview_src, temp_files, error_tags>>
themeVars == <<current_name, theme_file, diagram_theme, sketch_mode, theme_hist>>
vars == <<docVars, renderVars, themeVars, preview, last>>

----------------------------------------------------------------------------
(* Pure helpers *)

RECURSIVE Filter(_, _)
\* [f for f in s if f != p]
Filter(s, p) ==
    IF s = <<>> THEN <<>>
    ELSE IF Head(s) = p THEN Filter(Tail(s), p)
         ELSE <<Head(s)>> \o Filter(Tail(s), p)

\* s[:n]
Take(s, n) == SubSeq(s, 1, IF Len(s) < n THEN Len(s) ELSE n)

Range(s) == {s[i] : i \in 1..Len(s)}

NoDup(s) == \A i, j \in 1..Len(s) : i # j => s[i] # s[j]

RECURSIVE LStrip(_)
LStrip(s) == IF s # <<>> /\ Head(s) \in Whitespace THEN LStrip(Tail(s)) ELSE s

RECURSIVE RStrip(_)
RStrip(s) ==
    IF s # <<>> /\ s[Len(s)] \in Whitespace THEN RStrip(SubSeq(s, 1, Len(s) - 1)) ELSE s

\* str.strip()
Strip(s) == RStrip(LStrip(s))

\* hash(code): equal buffers have equal hashes; collisions of the 64-bit hash
\* of different buffers are not modelled
Hash(code) == <<"hash", code>>

\* Path(p).name: paths 1 and 2 are the same file name in two directories
Name(p) == (p + 1) \div 2

\* title() argument of _set_title, without the constant application name
Untitled == 0
SetTitle(cf) == IF cf = None THEN Untitled ELSE Name(cf)

----------------------------------------------------------------------------
(* The tk.Text widget of the editor.  The buffer is the sequence of its    *)
(* characters without the newline Tk keeps at the end; an index is the     *)
(* number of characters before it (0 is "1.0", Len(text) is "end-1c"); a   *)
(* tag is the set of the positions 1..Len(text) of the characters it       *)
(* covers.                                                                 *)

Min(a, b) == IF a < b THEN a ELSE b
Max(a, b) == IF a > b THEN a ELSE b

\* positions of the newlines of t
Newlines(t) == {i \in 1..Len(t) : t[i] = "\n"}

\* index "ln.0": the start of line ln (lines count from 1); past the last
\* line it is the end of the buffer
LineStart(t, ln) ==
    IF ln <= 1 THEN 0
    ELSE IF ln > Cardinality(Newlines(t)) + 1 THEN Len(t)
    ELSE CHOOSE i \in Newlines(t) : Cardinality({j \in Newlines(t) : j < i}) = ln - 2

\* index "ln.end": the newline that ends line ln, or the end of the buffer
LineEnd(t, ln) ==
    IF ln > Cardinality(Newlines(t)) THEN Len(t)
    ELSE (CHOOSE i \in Newlines(t) : Cardinality({j \in Newlines(t) : j < i}) = ln - 1) - 1

\* the line of index i, as in the string "line.col"
LineOf(t, i) == 1 + Cardinality({j \in Newlines(t) : j <= i})

\* index "ln.col": a column past the end of the line is the end of the line
LineCol(t, ln, col) == Min(LineStart(t, ln) + col, LineEnd(t, ln))

\* get("ln.0", "ln.end"): line ln without its newline
LineText(t, ln) == SubSeq(t, LineStart(t, ln) + 1, LineEnd(t, ln))

\* index "<i> +nc", kept inside the buffer
PlusChars(t, i, n) == Min(i + n, Len(t))

\* the widget state the editing commands work on
Widget == [text |-> text, ins |-> insert, sel |-> sel]

\* delete(a, b): marks inside the range move to a, tags lose the characters
TkDelete(w, a, b) ==
    IF b <= a THEN w
    ELSE [text |-> SubSeq(w.text, 1, a) \o SubSeq(w.text, b + 1, Len(w.text)),
          ins  |-> IF w.ins <= a THEN w.ins
                   ELSE IF w.ins >= b THEN w.ins - (b - a) ELSE a,
          sel  |-> {p \in w.sel : p <= a} \cup {p - (b - a) : p \in {q \in w.sel : q > b}}]

\* insert(a, s): the insert mark has right gravity, and the new characters
\* get the tags that the characters on both sides carry
TkInsert(w, a, s) ==
    IF s = <<>> THEN w
    ELSE [text |-> SubSeq(w.text, 1, a) \o s \o SubSeq(w.text, a + 1, Len(w.text)),
          ins  |-> IF w.ins >= a THEN w.ins + Len(s) ELSE w.ins,
          sel  |-> {p \in w.sel : p <= a}
                   \cup {p + Len(s) : p \in {q \in w.sel : q > a}}
                   \cup (IF a \in w.sel /\ (a + 1) \in w.sel
                         THEN (a + 1)..(a + Len(s)) ELSE {})]

\* sel.first and sel.last of a non-empty selection
SelFirst(w) == (CHOOSE p \in w.sel : \A q \in w.sel : p <= q) - 1
SelLast(w) == CHOOSE p \in w.sel : \A q \in w.sel : q <= p

----------------------------------------------------------------------------
(* Bracket matching, code_editor.py *)

pairs == [c \in {"(", "[", "{"} |-> IF c = "(" THEN ")" ELSE IF c = "[" THEN "]" ELSE "}"]
revpairs == [c \in {")", "]", "}"} |-> IF c = ")" THEN "(" ELSE IF c = "]" THEN "[" ELSE "{"]

\* get(i): the character after index i; at the end it is Tk's final newline
CharAt(t, i) == IF i < Len(t) THEN t[i + 1] ELSE "\n"

NoMatch == 0 - 1

\* _find_matching_forward: its loop from index i with the depth so far
RECURSIVE FindMatchingForward(_, _, _, _, _)
FindMatchingForward(t, i, depth, open_ch, close_ch) ==
    IF ~(i < Len(t)) THEN NoMatch
    ELSE IF CharAt(t, i) = open_ch
         THEN FindMatchingForward(t, i + 1, depth + 1, open_ch, close_ch)
    ELSE IF CharAt(t, i) = close_ch
         THEN IF depth - 1 = 0 THEN i
              ELSE FindMatchingForward(t, i + 1, depth - 1, open_ch, close_ch)
    ELSE FindMatchingForward(t, i + 1, depth, open_ch, close_ch)

\* _find_matching_backward: its loop from index i with the depth so far; it
\* runs while i > "1.0"
RECURSIVE FindMatchingBackward(_, _, _, _, _)
FindMatchingBackward(t, i, depth, close_ch, open_ch) ==
    IF ~(i > 0) THEN NoMatch
    ELSE IF CharAt(t, i) = close_ch
         THEN FindMatchingBackward(t, i - 1, depth + 1, close_ch, open_ch)
    ELSE IF CharAt(t, i) = open_ch
         THEN IF depth - 1 = 0 THEN i
              ELSE FindMatchingBackward(t, i - 1, depth - 1, close_ch, open_ch)
    ELSE FindMatchingBackward(t, i - 1, depth, close_ch, open_ch)

\* _highlight_bracket_match with the caret at index ins: the "match" tag
\* afterwards.  "insert -1c" is the bracket before the caret; the two
\* tag_add calls cover it and its partner
HighlightBracketMatch(t, ins) ==
    LET start == Max(ins - 1, 0)
        prev == CharAt(t, start)
        m == IF prev \in DOMAIN pairs
             THEN FindMatchingForward(t, start, 0, prev, pairs[prev])
             ELSE IF prev \in DOMAIN revpairs
             THEN FindMatchingBackward(t, start, 0, prev, revpairs[prev])
             ELSE NoMatch
    IN  IF m = NoMatch THEN {} ELSE ((start + 1)..ins) \cup {m + 1}

----------------------------------------------------------------------------
(* Document operations, as functions of the document state                 *)
(*   d = [text, cf, title, dirty, recent, chg, ins, sel, match]            *)
(* and of what the dialogs and the file system answer.  Each returns the   *)
(* new document state, the handler's return value and what it did.         *)

Doc == [text |-> text, cf |-> current_file, title |-> title, dirty |-> dirty,
        recent |-> recent_files, chg |-> change_scheduled,
        ins |-> insert, sel |-> sel, match |-> match_tag]

\* _add_recent_file without the dedupe line
AddRecentNoDedupe(recent, p) == Take(<<p>> \o recent, MaxRecent)

\* _add_recent_file: move to front, dedupe, cap
AddRecent(recent, p) == Take(<<p>> \o Filter(recent, p), MaxRecent)

\* _load_recent_files: keep the entries of the stored array that still exist
RECURSIVE LoadRecent(_, _)
LoadRecent(arr, existing) ==
    IF arr = <<>> THEN <<>>
    ELSE IF Head(arr) \in existing THEN <<Head(arr)>> \o LoadRecent(Tail(arr), existing)
         ELSE LoadRecent(Tail(arr), existing)

\* editor.set_text: delete + insert raise <<Modified>>, whose handler
\* (_on_modified_flag -> _event_changed) schedules the change callback and
\* looks for a bracket before the caret, which is after the inserted text
SetText(d, t) == [d EXCEPT !.text = t, !.chg = TRUE, !.ins = Len(t), !.sel = {},
                           !.match = HighlightBracketMatch(t, Len(t))]

\* _save_file with dirty cleared before the write is attempted
SaveWriteAlwaysClean(d, writeOk) ==
    IF writeOk
    THEN [d |-> [d EXCEPT !.dirty = FALSE], ret |-> d.cf, wrote |-> TRUE, err |-> "none"]
    ELSE [d |-> [d EXCEPT !.dirty = FALSE], ret |-> None, wrote |-> TRUE, err |-> "write"]

\* the try block of _save_file: write the buffer to current_file
SaveWrite(d, writeOk) ==
    IF writeOk
    THEN [d |-> [d EXCEPT !.dirty = FALSE], ret |-> d.cf, wrote |-> TRUE, err |-> "none"]
    ELSE [d |-> d, ret |-> None, wrote |-> TRUE, err |-> "write"]

\* _save_file_as: savePath is what asksaveasfilename returned
SaveFileAs(d, savePath, writeOk) ==
    IF savePath = None
    THEN [d |-> d, ret |-> None, wrote |-> FALSE, err |-> "none"]
    ELSE SaveWrite([d EXCEPT !.cf = savePath,
                             !.title = SetTitle(savePath),
                             !.recent = AddRecent(d.recent, savePath)], writeOk)

\* _save_file (force_dialog is False at every call site)
SaveFile(d, savePath, writeOk) ==
    IF d.cf = None THEN SaveFileAs(d, savePath, writeOk)
    ELSE SaveWrite(d, writeOk)

\* _maybe_prompt_save without the test of what _save_file returned
MaybePromptSaveIgnoringFailure(d, resp, savePath, writeOk) ==
    IF ~d.dirty
    THEN [d |-> d, ok |-> TRUE, resp |-> "none", saved |-> None, wrote |-> FALSE, err |-> "none"]
    ELSE IF resp = "cancel"
    THEN [d |-> d, ok |-> FALSE, resp |-> resp, saved |-> None, wrote |-> FALSE, err |-> "none"]
    ELSE IF resp = "yes"
    THEN LET s == SaveFile(d, savePath, writeOk)
         IN  [d |-> s.d, ok |-> TRUE, resp |-> resp, saved |-> s.ret,
              wrote |-> s.wrote, err |-> s.err]
    ELSE [d |-> d, ok |-> TRUE, resp |-> resp, saved |-> None, wrote |-> FALSE, err |-> "none"]

\* _maybe_prompt_save: resp is the answer to askyesnocancel
MaybePromptSave(d, resp, savePath, writeOk) ==
    IF ~d.dirty
    THEN [d |-> d, ok |-> TRUE, resp |-> "none", saved |-> None, wrote |-> FALSE, err |-> "none"]
    ELSE IF resp = "cancel"
    THEN [d |-> d, ok |-> FALSE, resp |-> resp, saved |-> None, wrote |-> FALSE, err |-> "none"]
    ELSE IF resp = "yes"
    THEN LET s == SaveFile(d, savePath, writeOk)
         IN  [d |-> s.d, ok |-> s.ret # None, resp |-> resp, saved |-> s.ret,
              wrote |-> s.wrote, err |-> s.err]
    ELSE [d |-> d, ok |-> TRUE, resp |-> resp, saved |-> None, wrote |-> FALSE, err |-> "none"]

Responses == {"yes", "no", "cancel"}

\* The history variable last describes the step that led to the state: the
\* handler (op), the answer to the unsaved-changes prompt ("none" when no
\* prompt was shown), what _save_file returned to the guard or to the Save
\* command (saved), whether _maybe_prompt_save was called and returned True
\* (proceeded), whether a file was opened for writing (wrote), the kind of
\* I/O failure reported (err), and the path the handler was given by its
\* file dialog or menu entry once it got that far (path).
\* what a step that is no document operation records
NoOp(name) == [op |-> name, resp |-> "none", saved |-> None, proceeded |-> FALSE,
               wrote |-> FALSE, err |-> "none", path |-> None]

SetDoc(d) ==
    /\ text' = d.text
    /\ insert' = d.ins
    /\ sel' = d.sel
    /\ match_tag' = d.match
    /\ current_file' = d.cf
    /\ title' = d.title
    /\ dirty' = d.dirty
    /\ recent_files' = d.recent
    /\ change_scheduled' = d.chg
    /\ change_due' = IF ~change_scheduled /\ d.chg THEN CHANGE_DELAY ELSE change_due

\* _new_document(initial_text)
NewDocumentText(initial_text) ==
    IF initial_text # <<>> THEN Strip(initial_text) \o <<"\n", " ", "\n">> ELSE <<>>

\* the File > New command and Ctrl+N call _new_document()
NewDocument(resp, savePath, writeOk) ==
    LET g == MaybePromptSave(Doc, resp, savePath, writeOk)
        d == IF g.ok
             THEN SetText([g.d EXCEPT !.cf = None, !.title = SetTitle(None)],
                          NewDocumentText(<<>>))
             ELSE g.d
    IN  /\ ~destroyed
        /\ SetDoc(d)
        /\ last' = [op |-> "new", resp |-> g.resp, saved |-> g.saved, proceeded |-> g.ok,
                    wrote |-> g.wrote, err |-> g.err, path |-> None]
        /\ UNCHANGED <<destroyed, since_event, edit_hist, renderVars>>
        /\ UNCHANGED themeVars
        /\ UNCHANGED preview

\* _open_file: openPath is what askopenfilename returned, content what the
\* read returned when readOk
OpenFile(resp, savePath, writeOk, openPath, readOk, content) ==
    LET g == MaybePromptSave(Doc, resp, savePath, writeOk)
        d == IF g.ok /\ openPath # None /\ readOk
             THEN [SetText(g.d, content) EXCEPT !.cf = openPath,
                                                !.title = SetTitle(openPath),
                                                !.recent = AddRecent(g.d.recent, openPath)]
             ELSE g.d
    IN  /\ ~destroyed
        /\ SetDoc(d)
        /\ last' = [op |-> "open", resp |-> g.resp, saved |-> g.saved, proceeded |-> g.ok,
                    wrote |-> g.wrote,
                    err |-> IF g.ok /\ openPath # None /\ ~readOk THEN "read" ELSE g.err,
                    path |-> IF g.ok THEN openPath ELSE None]
        /\ UNCHANGED <<destroyed, since_event, edit_hist, renderVars>>
        /\ UNCHANGED themeVars
        /\ UNCHANGED preview

\* _open_recent_file(filepath), the command of a Recent menu entry
OpenRecentFile(filepath, exists, readOk, content) ==
    LET d == IF ~exists
             THEN [Doc EXCEPT !.recent = Filter(Doc.recent, filepath)]
             ELSE IF readOk
             THEN [SetText(Doc, content) EXCEPT !.cf = filepath,
                                                !.title = SetTitle(filepath),
                                                !.recent = AddRecent(Doc.recent, filepath)]
             ELSE Doc
    IN  /\ ~destroyed
        /\ filepath \in Range(recent_files)
        /\ SetDoc(d)
        /\ last' = [op |-> "open_recent", resp |-> "none", saved |-> None,
                    proceeded |-> FALSE, wrote |-> FALSE,
                    err |-> IF ~exists THEN "missing"
                            ELSE IF ~readOk THEN "read" ELSE "none",
                    path |-> filepath]
        /\ UNCHANGED <<destroyed, since_event, edit_hist, renderVars>>
        /\ UNCHANGED themeVars
        /\ UNCHANGED preview

\* File > Save and Ctrl+S call _save_file()
SaveFileCmd(savePath, writeOk) ==
    LET s == SaveFile(Doc, savePath, writeOk)
    IN  /\ ~destroyed
        /\ SetDoc(s.d)
        /\ last' = [op |-> IF current_file = None THEN "save_as" ELSE "save",
                    resp |-> "none", saved |-> s.ret,
                    proceeded |-> FALSE, wrote |-> s.wrote, err |-> s.err,
                    path |-> IF current_file = None THEN savePath ELSE None]
        /\ UNCHANGED <<destroyed, since_event, edit_hist, renderVars>>
        /\ UNCHANGED themeVars
        /\ UNCHANGED preview

\* File > Save As...
SaveFileAsCmd(savePath, writeOk) ==
    LET s == SaveFileAs(Doc, savePath, writeOk)
    IN  /\ ~destroyed
        /\ SetDoc(s.d)
        /\ last' = [op |-> "save_as", resp |-> "none", saved |-> s.ret,
                    proceeded |-> FALSE, wrote |-> s.wrote, err |-> s.err, path |-> savePath]
        /\ UNCHANGED <<destroyed, since_event, edit_hist, renderVars>>
        /\ UNCHANGED themeVars
        /\ UNCHANGED preview

\* _on_exit: File > Exit and the window's close button
OnExit(resp, savePath, writeOk) ==
    LET g == MaybePromptSave(Doc, resp, savePath, writeOk)
    IN  /\ ~destroyed
        /\ SetDoc(g.d)
        /\ destroyed' = g.ok
        /\ last' = [op |-> "exit", resp |-> g.resp, saved |-> g.saved, proceeded |-> g.ok,
                    wrote |-> g.wrote, err |-> g.err, path |-> None]
        /\ UNCHANGED <<since_event, edit_hist, renderVars>>
        /\ UNCHANGED themeVars
        /\ UNCHANGED preview

\* _clear_recent_files
ClearRecentFiles ==
    /\ ~destroyed
    /\ recent_files # <<>>
    /\ recent_files' = <<>>
    /\ last' = NoOp("clear_recent")
    /\ UNCHANGED <<text, insert, sel, match_tag, edit_hist, current_file, title, dirty,
                   change_scheduled, change_due, since_event, destroyed, renderVars>>
    /\ UNCHANGED themeVars
    /\ UNCHANGED preview

\* _apply_example(name): the name comes from the Examples menu, so the
\* lookup succeeds; code is the example's text
ApplyExample(code) ==
    /\ ~destroyed
    /\ SetDoc([SetText(Doc, code) EXCEPT !.cf = None, !.title = SetTitle(None)])
    /\ last' = NoOp("example")
    /\ UNCHANGED <<destroyed, since_event, edit_hist, renderVars>>
    /\ UNCHANGED themeVars
    /\ UNCHANGED preview

\* _event_changed after the widget got the state w: schedule the change
\* callback unless one is scheduled, look for a bracket before the caret
EventChanged(w) ==
    /\ text' = w.text
    /\ insert' = w.ins
    /\ sel' = w.sel
    /\ match_tag' = HighlightBracketMatch(w.text, w.ins)
    /\ change_scheduled' = TRUE
    /\ change_due' = IF ~change_scheduled THEN CHANGE_DELAY ELSE change_due

\* a key release in the editor that changed the buffer to t and left the
\* caret at its end: typing replaces the selection
UserEdit(t) ==
    /\ ~destroyed
    /\ t # text
    /\ EventChanged([text |-> t, ins |-> Len(t), sel |-> {}])
    /\ since_event' = 0
    /\ last' = NoOp("edit")
    /\ UNCHANGED <<edit_hist, current_file, title, dirty, recent_files, destroyed, renderVars>>
    /\ UNCHANGED themeVars
    /\ UNCHANGED preview

\* TickMs of time pass.  A timer of after() fires when it is due: time does
\* not pass beyond the moment the change callback is due.
Tick ==
    /\ ~destroyed
    /\ change_scheduled => change_due >= TickMs
    /\ change_due' = IF change_scheduled THEN change_due - TickMs ELSE change_due
    /\ since_event' = IF since_event + TickMs < CHANGE_DELAY THEN since_event + TickMs
                      ELSE CHANGE_DELAY
    /\ last' = NoOp("other")
    /\ UNCHANGED <<text, insert, sel, match_tag, edit_hist, current_file, title, dirty,
                   recent_files, change_scheduled, destroyed, renderVars>>
    /\ UNCHANGED themeVars
    /\ UNCHANGED preview

----------------------------------------------------------------------------
(* Auto-render timer *)

NoHash == <<>>
NoPng == <<>>
NoImage == <<>>

\* the output path chosen by _render_clicked: next to the document, or the
\* one reused preview file of the cache directory
OutPng(cf) == <<"png", cf>>

\* the picture the renderer draws for an input file holding code
Image(code) == <<"img", code>>

\* handles after() can return: Tk never hands out a handle twice, so one
\* that is pending or still held somewhere is not available
HeldHandles == {workers[w].handle : w \in WorkerIds} \ {None}
FreshTimers(pending, job) == TimerIds \ (pending \cup {job} \cup HeldHandles)

\* _cancel_autorender applied to job handle job and pending timers tm
CancelTimers(tm, job) == IF job # None THEN tm \ {job} ELSE tm

\* _schedule_autorender, run on the UI thread: cancel the handle, set a timer
ScheduleAutorender(id) ==
    /\ id \in FreshTimers(CancelTimers(timers, auto_render_job), None)
    /\ timers' = CancelTimers(timers, auto_render_job) \cup {id}
    /\ auto_render_job' = id

\* _emit_change -> _on_editor_changed, 250 ms after the edit
EmitChange ==
    /\ ~destroyed
    /\ change_scheduled
    /\ change_scheduled' = FALSE
    /\ dirty' = TRUE
    /\ IF auto_render_var
       THEN \E id \in TimerIds : ScheduleAutorender(id)
       ELSE UNCHANGED <<timers, auto_render_job>>
    /\ last' = NoOp("other")
    /\ UNCHANGED <<text, insert, sel, match_tag, edit_hist, current_file, title,
                   recent_files, change_due, since_event, destroyed, mmdc_path,
                   auto_render_var, pending_autorender, last_rendered_hash,
                   code_hash_being_rendered, last_png, render_lock, workers, preview_src,
                   temp_files, error_tags>>
    /\ UNCHANGED themeVars
    /\ UNCHANGED preview

\* _on_autorender_toggle: the checkbox has flipped the variable
OnAutorenderToggle ==
    /\ ~destroyed
    /\ auto_render_var' = ~auto_render_var
    /\ IF auto_render_var'
       THEN \E id \in TimerIds : ScheduleAutorender(id)
       ELSE /\ timers' = CancelTimers(timers, auto_render_job)
            /\ auto_render_job' = None
    /\ last' = NoOp("other")
    /\ UNCHANGED <<docVars, mmdc_path, pending_autorender, last_rendered_hash,
                   code_hash_being_rendered, last_png, render_lock, workers, preview_src,
                   temp_files, error_tags>>
    /\ UNCHANGED themeVars
    /\ UNCHANGED preview

----------------------------------------------------------------------------
(* The diagram-type advisory and the renderer's input, mermaid_studio.py   *)

\* get_diagram_theme and get_sketch_mode of the Theme Manager
GetDiagramTheme == diagram_theme
GetSketchMode == sketch_mode

\* STABLE_TYPES of _maybe_warn_diagram_type, each keyword as its characters
STABLE_TYPES ==
    {<<"f", "l", "o", "w", "c", "h", "a", "r", "t">>,
     <<"f", "l", "o", "w", "c", "h", "a", "r", "t", "-", "l", "r">>,
     <<"f", "l", "o", "w", "c", "h", "a", "r", "t", "-", "r", "l">>,
     <<"f", "l", "o", "w", "c", "h", "a", "r", "t", "-", "t", "b">>,
     <<"f", "l", "o", "w", "c", "h", "a", "r", "t", "-", "b", "t">>,
     <<"g", "r", "a", "p", "h">>,
     <<"s", "e", "q", "u", "e", "n", "c", "e", "d", "i", "a", "g", "r", "a", "m">>,
     <<"c", "l", "a", "s", "s", "d", "i", "a", "g", "r", "a", "m">>,
     <<"s", "t", "a", "t", "e", "d", "i", "a", "g", "r", "a", "m">>,
     <<"s", "t", "a", "t", "e", "d", "i", "a", "g", "r", "a", "m", "-", "v", "2">>,
     <<"e", "r", "d", "i", "g", "r", "a", "m">>,
     <<"e", "r", "d", "i", "a", "g", "r", "a", "m">>,
     <<"j", "o", "u", "r", "n", "e", "y">>, <<"g", "a", "n", "t", "t">>,
     <<"p", "i", "e">>,
     <<"q", "u", "a", "d", "r", "a", "n", "t", "c", "h", "a", "r", "t">>,
     <<"r", "e", "q", "u", "i", "r", "e", "m", "e", "n", "t", "d", "i", "a", "g", "r", "a", "m">>,
     <<"g", "i", "t", "g", "r", "a", "p", "h">>,
     <<"c", "4", "c", "o", "n", "t", "e", "x", "t">>,
     <<"c", "4", "c", "o", "n", "t", "a", "i", "n", "e", "r">>,
     <<"c", "4", "c", "o", "m", "p", "o", "n", "e", "n", "t">>,
     <<"c", "4", "d", "y", "n", "a", "m", "i", "c">>,
     <<"m", "i", "n", "d", "m", "a", "p">>,
     <<"t", "i", "m", "e", "l", "i", "n", "e">>,
     <<"s", "a", "n", "k", "e", "y">>,
     <<"s", "a", "n", "k", "e", "y", "-", "b", "e", "t", "a">>,
     <<"x", "y", "c", "h", "a", "r", "t">>,
     <<"x", "y", "c", "h", "a", "r", "t", "-", "b", "e", "t", "a">>,
     <<"b", "l", "o", "c", "k", "d", "i", "a", "g", "r", "a", "m">>,
     <<"p", "a", "c", "k", "e", "t">>, <<"k", "a", "n", "b", "a", "n">>,
     <<"a", "r", "c", "h", "i", "t", "e", "c", "t", "u", "r", "e">>,
     <<"r", "a", "d", "a", "r">>, <<"t", "r", "e", "e", "m", "a", "p">>}

\* POTENTIALLY_UNSTABLE; the source has no comma between "treemap-beta" and
\* "blockdiagram", so Python joins the two literals into one member
POTENTIALLY_UNSTABLE ==
    {<<"a", "r", "c", "h", "i", "t", "e", "c", "t", "u", "r", "e">>,
     <<"a", "r", "c", "h", "i", "t", "e", "c", "t", "u", "r", "e", "-", "b", "e", "t", "a">>,
     <<"c", "4", "c", "o", "n", "t", "e", "x", "t">>,
     <<"c", "4", "c", "o", "n", "t", "a", "i", "n", "e", "r">>,
     <<"c", "4", "c", "o", "m", "p", "o", "n", "e", "n", "t">>,
     <<"c", "4", "d", "y", "n", "a", "m", "i", "c">>,
     <<"q", "u", "a", "d", "r", "a", "n", "t", "c", "h", "a", "r", "t">>,
     <<"s", "a", "n", "k", "e", "y">>,
     <<"s", "a", "n", "k", "e", "y", "-", "b", "e", "t", "a">>,
     <<"x", "y", "c", "h", "a", "r", "t">>,
     <<"x", "y", "c", "h", "a", "r", "t", "-", "b", "e", "t", "a">>,
     <<"k", "a", "n", "b", "a", "n">>, <<"r", "a", "d", "a", "r">>,
     <<"t", "r", "e", "e", "m", "a", "p">>,
     <<"t", "r", "e", "e", "m", "a", "p", "-", "b", "e", "t", "a", "b", "l", "o", "c", "k", "d", "i", "a", "g", "r", "a", "m">>}

\* _detect_diagram_type: the lowercase leading token of the first line that
\* is not blank, is no comment and starts with a token character; <<>>
\* stands for None
DetectDiagramType(code) ==
    LET upper == <<"A", "B", "C", "D", "E", "F", "G", "H", "I", "J", "K", "L", "M",
                   "N", "O", "P", "Q", "R", "S", "T", "U", "V", "W", "X", "Y", "Z">>
        lower == <<"a", "b", "c", "d", "e", "f", "g", "h", "i", "j", "k", "l", "m",
                   "n", "o", "p", "q", "r", "s", "t", "u", "v", "w", "x", "y", "z">>
        token_chars == Range(upper) \cup Range(lower)
                       \cup {"0", "1", "2", "3", "4", "5", "6", "7", "8", "9"}
                       \cup {"_", ".", ":", "-"}
        Lower(c) == IF c \in Range(upper) THEN lower[CHOOSE i \in 1..26 : upper[i] = c]
                    ELSE c
        line(n) == Strip(LineText(code, n))
        \* re.match(r"^([A-Za-z0-9_.:-]+)", line): the length of the match
        m(l) == CHOOSE k \in 0..Len(l) :
                    /\ \A i \in 1..k : l[i] \in token_chars
                    /\ k < Len(l) => l[k + 1] \notin token_chars
        hits == {n \in 1..(Cardinality(Newlines(code)) + 1) :
                    /\ line(n) # <<>>
                    /\ ~(Len(line(n)) >= 2 /\ line(n)[1] = "%" /\ line(n)[2] = "%")
                    /\ m(line(n)) > 0}
        first == CHOOSE n \in hits : \A k \in hits : n <= k
    IN  IF hits = {} THEN <<>>
        ELSE [i \in 1..m(line(first)) |-> Lower(line(first)[i])]

\* _maybe_warn_diagram_type: which advisory _errorlog_show is called with
MaybeWarnDiagramType(code) ==
    LET dtype == DetectDiagramType(code)
        is_known == dtype \in STABLE_TYPES
        is_unstable == dtype \in POTENTIALLY_UNSTABLE
    IN  IF dtype = <<>> THEN "none"
        ELSE IF ~is_known THEN "unknown"
        ELSE IF is_unstable THEN "unstable"
        ELSE "none"

\* code_to_render with the two tests made on the text as it stands
CodeToRenderUnstripped(code, sketch_enabled, dt) ==
    LET StartsWith(t, pre) == Len(t) >= Len(pre) /\ SubSeq(t, 1, Len(pre)) = pre
        has_frontmatter == StartsWith(code, <<"-", "-", "-">>)
        has_init_block == StartsWith(code, <<"%", "%", "{", "i", "n", "i", "t", ":">>)
        header == <<"---\n", "config:\n", "  look: handDrawn\n", "  theme: ", dt, "\n",
                    "---\n">>
    IN  IF sketch_enabled /\ ~(has_frontmatter \/ has_init_block) THEN header \o code
        ELSE code

\* code_to_render of _render_clicked: the header of the hand-drawn look goes
\* before a text that starts with neither front matter nor an init block
CodeToRender(code, sketch_enabled, dt) ==
    LET StartsWith(t, pre) == Len(t) >= Len(pre) /\ SubSeq(t, 1, Len(pre)) = pre
        has_frontmatter == StartsWith(LStrip(code), <<"-", "-", "-">>)
        has_init_block == StartsWith(LStrip(code), <<"%", "%", "{", "i", "n", "i", "t", ":">>)
        header == <<"---\n", "config:\n", "  look: handDrawn\n", "  theme: ", dt, "\n",
                    "---\n">>
    IN  IF sketch_enabled /\ ~(has_frontmatter \/ has_init_block) THEN header \o code
        ELSE code

----------------------------------------------------------------------------
(* Render requests *)

\* what subprocess.run and the file system give a worker
NoResult == [kind |-> "none", rc |-> 0, stderr |-> <<>>, stdout |-> <<>>,
             png |-> FALSE, img |-> FALSE]

\* a worker thread: its position, the buffer text of the request, what the
\* closure's input file holds, the closure's output path, the handle
\* after() returned to it, and history: the advisory the request showed,
\* whether the request was made while a render was alive, what the renderer
\* answered, the error items parsed from it and whether the success path ran
IdleWorker == [pc |-> "idle", code |-> <<>>, input |-> <<>>, out |-> NoPng, handle |-> None,
               adv |-> "none", busy |-> FALSE, res |-> NoResult, items |-> <<>>,
               recorded |-> FALSE]

\* temp_files holds the worker whose closure names a temporary input file
\* (mstudio_<uuid>.mmd, written by _render_clicked) that exists, and Stale
\* when such a file exists that no live worker names: nothing in the program
\* deletes those, so how many there are is not recorded
Stale == 0

\* a render has been started and has not finished
RenderAlive == \E w \in WorkerIds : workers[w].pc # "idle"

\* _render_async(input_file, output_png): reject when the lock is held, else
\* start a worker thread
RenderAsync(code, out) ==
    IF render_lock # None
    THEN /\ workers' = workers
         /\ temp_files' = temp_files \cup {Stale}
         /\ last' = NoOp("other")
    ELSE /\ \E w \in WorkerIds :
              /\ workers[w].pc = "idle"
              /\ \A v \in WorkerIds : workers[v].pc = "idle" => w <= v
              /\ workers' = [workers EXCEPT ![w] =
                     [IdleWorker EXCEPT
                         !.pc = "start", !.code = code, !.out = out, !.busy = RenderAlive,
                         !.adv = MaybeWarnDiagramType(code),
                         !.input = CodeToRender(code, GetSketchMode, GetDiagramTheme)]]
              /\ temp_files' = temp_files \cup {w}
         /\ last' = NoOp("other")

\* the body of _render_clicked, entered with timer handle job and pending
\* timers tm; locate says whether the user supplies a renderer when asked.
\* The temporary input file is written before _render_async looks at the lock
RenderClickedBody(tm, job, locate) ==
    /\ timers' = CancelTimers(tm, job)
    /\ auto_render_job' = None
    /\ IF ~mmdc_path /\ ~locate
       THEN /\ last' = NoOp("other")
            /\ UNCHANGED <<mmdc_path, code_hash_being_rendered, workers, temp_files>>
       ELSE /\ mmdc_path' = TRUE
            /\ code_hash_being_rendered' = Hash(text)
            /\ RenderAsync(text, OutPng(current_file))

\* the Render button
RenderClicked(locate) ==
    /\ ~destroyed
    /\ RenderClickedBody(timers, auto_render_job, locate)
    /\ UNCHANGED <<docVars, auto_render_var, pending_autorender, last_rendered_hash,
                   last_png, render_lock, preview_src, error_tags>>
    /\ UNCHANGED themeVars
    /\ UNCHANGED preview

\* _auto_render_fire: timer t of the event loop fires
AutoRenderFire(t, locate) ==
    /\ ~destroyed
    /\ t \in timers
    /\ IF Strip(text) = <<>>
       THEN /\ last' = NoOp("other")
            /\ timers' = timers \ {t}
            /\ auto_render_job' = None
            /\ UNCHANGED <<mmdc_path, code_hash_being_rendered, workers, pending_autorender,
                           temp_files>>
       ELSE IF last_rendered_hash # NoHash /\ Hash(text) = last_rendered_hash
       THEN /\ last' = NoOp("other")
            /\ timers' = timers \ {t}
            /\ auto_render_job' = None
            /\ UNCHANGED <<mmdc_path, code_hash_being_rendered, workers, pending_autorender,
                           temp_files>>
       ELSE IF render_lock # None
       THEN /\ last' = NoOp("other")
            /\ timers' = timers \ {t}
            /\ auto_render_job' = None
            /\ pending_autorender' = TRUE
            /\ UNCHANGED <<mmdc_path, code_hash_being_rendered, workers, temp_files>>
       ELSE /\ RenderClickedBody(timers \ {t}, None, locate)
            /\ UNCHANGED pending_autorender
    /\ UNCHANGED <<docVars, auto_render_var, last_rendered_hash, last_png, render_lock,
                   preview_src, error_tags>>
    /\ UNCHANGED themeVars
    /\ UNCHANGED preview

----------------------------------------------------------------------------
(* Preview pane, preview_pane.py.  Zoom factors are counted in thousandths *)
(* (1.0 is 1000) and a product or quotient is rounded down to a thousandth. *)

\* one thousandth is the unit of a zoom factor
ZoomUnit == 1000
\* _min_zoom = 0.05 and _max_zoom = 8.0
MinZoom == 50
MaxZoom == 8000
\* the wheel factors 1.10 and 0.90, in hundredths
ZoomIn == 110
ZoomOut == 90

\* widths and heights of the canvas (winfo_width, winfo_height) and of images
CanvasSizes == {<<1, 1>>, <<800, 600>>, <<1920, 1000>>}
ImageSizes == {<<40, 30>>, <<2048, 1024>>, <<30000, 200>>}

\* the size of the picture the renderer draws for an input file holding code
ImageSize(code) == IF Strip(code) = <<>> THEN <<40, 30>> ELSE <<2048, 1024>>

\* PreviewPane.__init__: no image, zoom 1.0, canvas laid out
NoPreview == [zoom |-> ZoomUnit, fit_zoom |-> ZoomUnit, cw |-> 800, ch |-> 600,
              iw |-> 0, ih |-> 0]

\* _compute_fit_zoom
ComputeFitZoom(pv) ==
    Max(MinZoom, Min((ZoomUnit * Max(1, pv.cw)) \div pv.iw,
                     (ZoomUnit * Max(1, pv.ch)) \div pv.ih))

\* _fit_to_window
FitToWindow(pv) == [pv EXCEPT !.fit_zoom = ComputeFitZoom(pv), !.zoom = ComputeFitZoom(pv)]

\* display(image_path) of an image of the given size: load, fit, render
PreviewDisplay(pv, size) == FitToWindow([pv EXCEPT !.iw = size[1], !.ih = size[2]])

\* display(image_path), called with an image file that can be opened
Display(code, size) ==
    /\ ~destroyed
    /\ preview_src' = Image(code)
    /\ preview' = PreviewDisplay(preview, size)
    /\ last' = NoOp("display")
    /\ UNCHANGED <<docVars, themeVars, mmdc_path, auto_render_var, auto_render_job, timers,
                   pending_autorender, last_rendered_hash, code_hash_being_rendered,
                   last_png, render_lock, workers, temp_files, error_tags>>

\* reset_view, the button on the preview
ResetView ==
    /\ ~destroyed
    /\ preview' = IF preview_src = NoImage THEN preview ELSE FitToWindow(preview)
    /\ last' = NoOp("reset_view")
    /\ UNCHANGED <<docVars, themeVars, renderVars>>

\* _on_resize: the canvas got the size size
OnResize(size) ==
    LET pv == [preview EXCEPT !.cw = size[1], !.ch = size[2]]
    IN  /\ ~destroyed
        /\ preview' = IF preview_src = NoImage THEN pv
                      ELSE IF preview.zoom = preview.fit_zoom THEN FitToWindow(pv)
                      ELSE [pv EXCEPT !.fit_zoom = ComputeFitZoom(pv)]
        /\ last' = NoOp("resize")
        /\ UNCHANGED <<docVars, themeVars, renderVars>>

\* _zoom_at(factor, x, y): one wheel step, factor in hundredths
ZoomAt(factor) ==
    LET new_zoom == Min(MaxZoom, Max(MinZoom, (preview.zoom * factor) \div 100))
    IN  /\ ~destroyed
        /\ preview' = IF preview_src = NoImage \/ new_zoom = preview.zoom THEN preview
                      ELSE [preview EXCEPT !.zoom = new_zoom]
        /\ last' = NoOp("zoom")
        /\ UNCHANGED <<docVars, themeVars, renderVars>>

----------------------------------------------------------------------------
(* The render worker thread, _render_async.worker *)

\* error_markers of the worker
error_markers == {"Syntax error in text", "Parse error on line",
                  "Lexical error on line", "Expecting '"}

\* captured outputs, as sequences of phrases: nothing, a marker phrase, or
\* (on standard output) the renderer's progress line
StderrTexts == {<<>>} \cup {<<m>> : m \in error_markers}
StdoutTexts == {<<>>, <<"Generating single mermaid chart">>, <<"Syntax error in text">>}

\* what can happen to a worker between taking the lock and the end of the try
Results ==
    {[NoResult EXCEPT !.kind = k] : k \in {"missing_input", "timeout", "notfound", "exc"}}
    \cup {[kind |-> "exit", rc |-> rc, stderr |-> e, stdout |-> o, png |-> p, img |-> i] :
             rc \in {0, 1}, e \in StderrTexts, o \in StdoutTexts,
             p \in BOOLEAN, i \in BOOLEAN}

\* combined_output = (result.stderr or "") + "\n" + (result.stdout or "")
CombinedOutput(res) == res.stderr \o <<"\n">> \o res.stdout

\* _parse_mermaid_errors(stderr, stdout): the items.  An output is a sequence
\* of words; "Parse error on line" and "Lexical error on line" end with the
\* word "line"; int() of a number word is its place in the list of numbers.
\* First the parser that takes every "line N" mention
ParseMermaidErrorsFromAnyLine(stderr, stdout) ==
    LET numbers == <<"1", "2", "3", "4", "5", "6", "7", "8", "9", "10">>
        ToInt(word) == CHOOSE n \in 1..Len(numbers) : numbers[n] = word
        full == Strip(stderr \o <<"\n">> \o stdout)
        \* \s+(\d+) after the word at i: the place of the number, 0 if none
        NumberAfter(i) ==
            IF i + 1 <= Len(full) /\ full[i + 1] \in Range(numbers) THEN i + 1
            ELSE IF /\ i + 2 <= Len(full) /\ full[i + 1] \in Whitespace
                    /\ full[i + 2] \in Range(numbers) THEN i + 2
            ELSE 0
        IsLine(i) == /\ full[i] \in {"line", "Parse error on line", "Lexical error on line"}
                     /\ NumberAfter(i) # 0
        RECURSIVE Mentions(_)
        Mentions(i) ==
            IF i > Len(full) THEN <<>>
            ELSE IF IsLine(i) THEN <<ToInt(full[NumberAfter(i)])>> \o Mentions(NumberAfter(i) + 1)
            ELSE Mentions(i + 1)
        lines == Mentions(1)
        cols == {i \in 1..Len(full) : full[i] = "column" /\ NumberAfter(i) # 0}
        col == IF cols = {} THEN NoMatch
               ELSE ToInt(full[NumberAfter(CHOOSE i \in cols : \A j \in cols : i <= j)])
        RECURSIVE Sorted(_)
        Sorted(S) == IF S = {} THEN <<>>
                     ELSE LET least == CHOOSE x \in S : \A y \in S : x <= y
                          IN  <<least>> \o Sorted(S \ {least})
        uniq == Sorted(Range(lines))
    IN  [i \in 1..Len(uniq) |-> [line |-> uniq[i], col |-> col]]

\* _parse_mermaid_errors(stderr, stdout)
ParseMermaidErrors(stderr, stdout) ==
    LET numbers == <<"1", "2", "3", "4", "5", "6", "7", "8", "9", "10">>
        ToInt(word) == CHOOSE n \in 1..Len(numbers) : numbers[n] = word
        \* full = ((stderr or "") + "\n" + (stdout or "")).strip()
        full == Strip(stderr \o <<"\n">> \o stdout)
        \* \s+(\d+) after the word at i: the place of the number, 0 if none
        NumberAfter(i) ==
            IF i + 1 <= Len(full) /\ full[i + 1] \in Range(numbers) THEN i + 1
            ELSE IF /\ i + 2 <= Len(full) /\ full[i + 1] \in Whitespace
                    /\ full[i + 2] \in Range(numbers) THEN i + 2
            ELSE 0
        IsLine(i) == /\ full[i] \in {"line", "Parse error on line", "Lexical error on line"}
                     /\ NumberAfter(i) # 0
        \* finditer of "(Parse|Lexical) error ... line N" from word i on; open
        \* says that the start of the pattern was seen
        RECURSIVE Errors(_, _)
        Errors(i, open) ==
            IF i > Len(full) THEN <<>>
            ELSE IF (open \/ full[i] \in {"Parse error on line", "Lexical error on line"})
                    /\ IsLine(i)
                 THEN <<ToInt(full[NumberAfter(i)])>> \o Errors(NumberAfter(i) + 1, FALSE)
            ELSE Errors(i + 1, open \/ full[i] \in {"Parse error on line",
                                                     "Lexical error on line"})
        \* finditer of "line N"
        RECURSIVE Mentions(_)
        Mentions(i) ==
            IF i > Len(full) THEN <<>>
            ELSE IF IsLine(i) THEN <<ToInt(full[NumberAfter(i)])>> \o Mentions(NumberAfter(i) + 1)
            ELSE Mentions(i + 1)
        lines == IF Errors(1, FALSE) # <<>> THEN Errors(1, FALSE) ELSE Mentions(1)
        \* re.search of "column C"
        cols == {i \in 1..Len(full) : full[i] = "column" /\ NumberAfter(i) # 0}
        col == IF cols = {} THEN NoMatch
               ELSE ToInt(full[NumberAfter(CHOOSE i \in cols : \A j \in cols : i <= j)])
        \* sorted(set(lines))
        RECURSIVE Sorted(_)
        Sorted(S) == IF S = {} THEN <<>>
                     ELSE LET least == CHOOSE x \in S : \A y \in S : x <= y
                          IN  <<least>> \o Sorted(S \ {least})
        uniq == Sorted(Range(lines))
    IN  [i \in 1..Len(uniq) |-> [line |-> uniq[i], col |-> col]]

\* the marker loop run over result.stderr alone
SoftErrorStderrOnly(res) == \E m \in error_markers : m \in Range(res.stderr)

\* the marker loop: some marker occurs in the combined output
SoftError(res) == \E m \in error_markers : m \in Range(CombinedOutput(res))

\* the verdict without the output_png.exists() test
RenderSucceedsNoPngCheck(res) ==
    /\ res.kind = "exit"
    /\ ~(res.rc # 0 \/ SoftError(res))

\* the worker reaches the code after the try block
RenderSucceeds(res) ==
    /\ res.kind = "exit"
    /\ ~(res.rc # 0 \/ SoftError(res))
    /\ res.png

\* a worker that enters without waiting for the lock
WorkerAcquireNoWait(w) ==
    /\ ~destroyed
    /\ workers[w].pc = "start"
    /\ render_lock' = w
    /\ workers' = [workers EXCEPT ![w].pc = "locked"]
    /\ last' = NoOp("other")
    /\ UNCHANGED <<docVars, mmdc_path, auto_render_var, auto_render_job, timers,
                   pending_autorender, last_rendered_hash, code_hash_being_rendered,
                   last_png, preview_src, temp_files, error_tags>>
    /\ UNCHANGED themeVars
    /\ UNCHANGED preview

\* with self.render_lock: the thread blocks until the lock is free
WorkerAcquire(w) ==
    /\ ~destroyed
    /\ workers[w].pc = "start"
    /\ render_lock = None
    /\ render_lock' = w
    /\ workers' = [workers EXCEPT ![w].pc = "locked"]
    /\ last' = NoOp("other")
    /\ UNCHANGED <<docVars, mmdc_path, auto_render_var, auto_render_job, timers,
                   pending_autorender, last_rendered_hash, code_hash_being_rendered,
                   last_png, preview_src, temp_files, error_tags>>
    /\ UNCHANGED themeVars
    /\ UNCHANGED preview

\* the input check, subprocess.run, the verdict, and on success the removal
\* of the temporary input file, the record of the render and the reload of
\* the preview (display raises and changes nothing when the image cannot be
\* opened; _show_preview then reports it).  The input check fails when the
\* temporary file is gone.
WorkerRun(w, res) ==
    /\ ~destroyed
    /\ workers[w].pc = "locked"
    /\ res.img => RenderSucceeds(res)
    /\ temp_files' = IF RenderSucceeds(res) \/ res.kind = "missing_input"
                     THEN temp_files \ {w} ELSE temp_files
    /\ IF RenderSucceeds(res)
       THEN /\ last_png' = workers[w].out
            /\ last_rendered_hash' = code_hash_being_rendered
            /\ error_tags' = [lines |-> {}, cols |-> {}]
            /\ preview_src' = IF res.img THEN Image(workers[w].code) ELSE preview_src
            /\ preview' = IF res.img THEN PreviewDisplay(preview, ImageSize(workers[w].code))
                          ELSE preview
            /\ workers' = [workers EXCEPT ![w].pc = "followup", ![w].res = res,
                                          ![w].recorded = TRUE]
            /\ UNCHANGED insert
       ELSE IF res.kind = "exit" /\ (res.rc # 0 \/ SoftError(res))
       THEN \* the renderer reported errors: parse them, and highlight_errors
            \* when there are items (clear the markers, mark every item, put
            \* the caret on the first one)
            LET items == ParseMermaidErrors(res.stderr, res.stdout)
                Col0(it) == Max(0, (IF it.col = NoMatch THEN 0 ELSE it.col - 1))
            IN  /\ workers' = [workers EXCEPT ![w].pc = "release", ![w].res = res,
                                              ![w].items = items]
                /\ error_tags' =
                       IF items = <<>> THEN error_tags
                       ELSE [lines |-> {Max(1, items[i].line) : i \in DOMAIN items},
                             cols |-> {<<Max(1, items[i].line), Col0(items[i])>> :
                                          i \in {j \in DOMAIN items : items[j].col # NoMatch}}]
                /\ insert' = IF items = <<>> THEN insert
                             ELSE LineCol(text, Max(1, items[1].line), Col0(items[1]))
                /\ UNCHANGED <<last_png, last_rendered_hash, preview_src, preview>>
       ELSE /\ workers' = [workers EXCEPT ![w].pc = "release", ![w].res = res]
            /\ UNCHANGED <<last_png, last_rendered_hash, preview_src, preview, error_tags,
                           insert>>
    /\ last' = NoOp("other")
    /\ UNCHANGED <<text, sel, match_tag, edit_hist, current_file, title, dirty,
                   recent_files, change_scheduled, change_due, since_event, destroyed>>
    /\ UNCHANGED <<mmdc_path, auto_render_var, auto_render_job, timers,
                   pending_autorender, code_hash_being_rendered, render_lock>>
    /\ UNCHANGED themeVars

\* the follow-up test, and the first half of _schedule_autorender(1000):
\* cancel the timer whose handle is stored
WorkerFollowUp(w) ==
    /\ ~destroyed
    /\ workers[w].pc = "followup"
    /\ IF pending_autorender /\ auto_render_var
       THEN /\ pending_autorender' = FALSE
            /\ timers' = CancelTimers(timers, auto_render_job)
            /\ auto_render_job' = None
            /\ workers' = [workers EXCEPT ![w].pc = "sched_after"]
       ELSE /\ workers' = [workers EXCEPT ![w].pc = "release"]
            /\ UNCHANGED <<pending_autorender, timers, auto_render_job>>
    /\ last' = NoOp("other")
    /\ UNCHANGED <<docVars, mmdc_path, auto_render_var, last_rendered_hash,
                   code_hash_being_rendered, last_png, render_lock, preview_src,
                   temp_files, error_tags>>
    /\ UNCHANGED themeVars
    /\ UNCHANGED preview

\* self.after(delay_ms, self._auto_render_fire) called by the worker
WorkerAfter(w, id) ==
    /\ ~destroyed
    /\ workers[w].pc = "sched_after"
    /\ id \in FreshTimers(timers, auto_render_job)
    /\ timers' = timers \cup {id}
    /\ workers' = [workers EXCEPT ![w].pc = "sched_assign", ![w].handle = id]
    /\ last' = NoOp("other")
    /\ UNCHANGED <<docVars, mmdc_path, auto_render_var, auto_render_job,
                   pending_autorender, last_rendered_hash, code_hash_being_rendered,
                   last_png, render_lock, preview_src, temp_files, error_tags>>
    /\ UNCHANGED themeVars
    /\ UNCHANGED preview

\* self.auto_render_job = <the handle>, by the worker
WorkerAssign(w) ==
    /\ ~destroyed
    /\ workers[w].pc = "sched_assign"
    /\ auto_render_job' = workers[w].handle
    /\ workers' = [workers EXCEPT ![w].pc = "release", ![w].handle = None]
    /\ last' = NoOp("other")
    /\ UNCHANGED <<docVars, mmdc_path, auto_render_var, timers,
                   pending_autorender, last_rendered_hash, code_hash_being_rendered,
                   last_png, render_lock, preview_src, temp_files, error_tags>>
    /\ UNCHANGED themeVars
    /\ UNCHANGED preview

\* a worker that gives the lock back only after a recorded render
WorkerReleaseAfterSuccess(w) ==
    /\ ~destroyed
    /\ workers[w].pc = "release"
    /\ render_lock' = IF workers[w].recorded THEN None ELSE render_lock
    /\ workers' = [workers EXCEPT ![w] = IdleWorker]
    /\ temp_files' = IF w \in temp_files THEN (temp_files \ {w}) \cup {Stale}
                     ELSE temp_files
    /\ last' = NoOp("other")
    /\ UNCHANGED <<docVars, mmdc_path, auto_render_var, auto_render_job, timers,
                   pending_autorender, last_rendered_hash, code_hash_being_rendered,
                   last_png, preview_src, error_tags>>
    /\ UNCHANGED themeVars
    /\ UNCHANGED preview

\* leaving the with block (by return or at its end) releases the lock and
\* the thread ends
WorkerRelease(w) ==
    /\ ~destroyed
    /\ workers[w].pc = "release"
    /\ render_lock' = None
    /\ workers' = [workers EXCEPT ![w] = IdleWorker]
    /\ temp_files' = IF w \in temp_files THEN (temp_files \ {w}) \cup {Stale}
                     ELSE temp_files
    /\ last' = NoOp("other")
    /\ UNCHANGED <<docVars, mmdc_path, auto_render_var, auto_render_job, timers,
                   pending_autorender, last_rendered_hash, code_hash_being_rendered,
                   last_png, preview_src, error_tags>>
    /\ UNCHANGED themeVars
    /\ UNCHANGED preview

\* _export_png_as: exists is last_png.exists(), dest the chosen destination,
\* copyOk whether shutil.copy succeeds
ExportPngAs(exists, dest, copyOk) ==
    /\ ~destroyed
    /\ last' = IF last_png = NoPng \/ ~exists THEN NoOp("export_none")
               ELSE IF dest = None THEN NoOp("export_cancel")
               ELSE [NoOp("export") EXCEPT !.wrote = TRUE, !.path = dest,
                                           !.err = IF copyOk THEN "none" ELSE "write"]
    /\ UNCHANGED <<docVars, renderVars>>
    /\ UNCHANGED themeVars
    /\ UNCHANGED preview

----------------------------------------------------------------------------
(* Theme Manager, theme.py.  The file ends inside apply_theme: the diagram  *)
(* theme and sketch-mode accessors that mermaid_studio.py calls are modelled *)
(* from the specification.                                                  *)

ThemeNames == {"light", "dark"}
DiagramThemes == {"default", "forest", "dark", "neutral"}

\* what theme.json can hold: nothing (no file), text that json.load rejects,
\* {"theme": "light"}, {"theme": "dark"}, or JSON with another value
ThemeFiles == {"absent", "unreadable", "light", "dark", "other"}

\* what can happen to the write of _save_theme_name: it succeeds, the
\* directory or the file cannot be opened, or open() truncated the file and
\* the dump failed; every exception is swallowed
SaveOutcomes == {"ok", "noopen", "partial"}

\* _load_saved_theme_name accepting whatever name the file holds
LoadSavedThemeNameUnchecked(file) ==
    IF file \in {"absent", "unreadable"} THEN "light" ELSE file

\* _load_saved_theme_name(default="light")
LoadSavedThemeName(file) ==
    IF file \in {"light", "dark"} THEN file ELSE "light"

\* _save_theme_name(name): the new content of theme.json
SaveThemeName(file, name, outcome) ==
    IF outcome = "ok" THEN name
    ELSE IF outcome = "partial" THEN "unreadable"
    ELSE file

\* set_theme that also moves the diagram theme to the UI theme's namesake
SetThemeWithDiagram(name, outcome) ==
    /\ ~destroyed
    /\ current_name' = name
    /\ theme_file' = SaveThemeName(theme_file, name, outcome)
    /\ diagram_theme' = IF name = "dark" THEN "dark" ELSE "default"
    /\ theme_hist' = [theme_hist EXCEPT !.op = "set_theme", !.before = current_name,
                                        !.saved = (outcome = "ok")]
    /\ last' = NoOp("other")
    /\ UNCHANGED <<docVars, renderVars, sketch_mode>>
    /\ UNCHANGED preview

\* set_theme(name): store the name, persist it, repaint
SetTheme(name, outcome) ==
    /\ ~destroyed
    /\ current_name' = name
    /\ theme_file' = SaveThemeName(theme_file, name, outcome)
    /\ theme_hist' = [theme_hist EXCEPT !.op = "set_theme", !.before = current_name,
                                        !.saved = (outcome = "ok")]
    /\ last' = NoOp("other")
    /\ UNCHANGED <<docVars, renderVars, diagram_theme, sketch_mode>>
    /\ UNCHANGED preview

\* toggle_theme, the command of Settings > Use Dark/Light Theme
ToggleTheme(outcome) ==
    /\ ~destroyed
    /\ current_name' = IF current_name = "light" THEN "dark" ELSE "light"
    /\ theme_file' = SaveThemeName(theme_file, current_name', outcome)
    /\ theme_hist' = [theme_hist EXCEPT !.op = "toggle", !.before = current_name,
                                        !.saved = (outcome = "ok")]
    /\ last' = NoOp("other")
    /\ UNCHANGED <<docVars, renderVars, diagram_theme, sketch_mode>>
    /\ UNCHANGED preview

\* _on_diagram_theme_selected(theme_name) -> set_diagram_theme
OnDiagramThemeSelected(theme_name) ==
    /\ ~destroyed
    /\ diagram_theme' = theme_name
    /\ theme_hist' = [theme_hist EXCEPT !.op = "set_diagram", !.dt = theme_name]
    /\ last' = NoOp("other")
    /\ UNCHANGED <<docVars, renderVars, current_name, theme_file, sketch_mode>>
    /\ UNCHANGED preview

\* _on_sketch_toggled -> set_sketch_mode(enabled)
OnSketchToggled(enabled) ==
    /\ ~destroyed
    /\ sketch_mode' = enabled
    /\ theme_hist' = [theme_hist EXCEPT !.op = "set_sketch", !.sk = enabled]
    /\ last' = NoOp("other")
    /\ UNCHANGED <<docVars, renderVars, current_name, theme_file, diagram_theme>>
    /\ UNCHANGED preview

\* what theme.json holds and the settings a new Theme Manager starts with
ThemeStart(file, dt, sk) ==
    /\ theme_file = file
    /\ current_name = LoadSavedThemeName(file)
    /\ diagram_theme = dt
    /\ sketch_mode = sk
    /\ theme_hist = [op |-> "init", before |-> LoadSavedThemeName(file), saved |-> FALSE,
                     dt |-> dt, sk |-> sk]

\* ThemeManager.__init__ of a later construction; file is what theme.json
\* holds by then: what was written, or what something else made of it
ThemeManagerInit(file, dt, sk) ==
    /\ ~destroyed
    /\ theme_file' = file
    /\ current_name' = LoadSavedThemeName(file)
    /\ diagram_theme' = dt
    /\ sketch_mode' = sk
    /\ theme_hist' = [op |-> "init", before |-> current_name, saved |-> FALSE,
                      dt |-> dt, sk |-> sk]
    /\ last' = NoOp("other")
    /\ UNCHANGED <<docVars, renderVars>>
    /\ UNCHANGED preview

----------------------------------------------------------------------------
(* Editing commands: the mouse, the Find/Replace dialog (find_dialog.py)   *)

\* what the last editing command was given: nothing yet
NoEdit == [needle |-> <<>>, repl |-> <<>>, before |-> <<>>, found |-> NoMatch,
           first |-> 0, last |-> 0, clean |-> FALSE]

\* what the commands below leave alone
shellVars == <<current_file, title, dirty, recent_files, destroyed, renderVars, themeVars,
               preview>>

\* a click in the editor puts the caret at index c and drops the selection;
\* <ButtonRelease-1> then runs _event_changed
ButtonRelease(c) ==
    /\ ~destroyed
    /\ c \in 0..Len(text)
    /\ EventChanged([text |-> text, ins |-> c, sel |-> {}])
    /\ since_event' = 0
    /\ last' = NoOp("click")
    /\ UNCHANGED <<edit_hist, shellVars>>

\* text_widget.search(pattern, index, stopindex="end"): the first match at
\* or after index, no wrapping round
Search(t, pattern, index) ==
    LET hits == {i \in index..(Len(t) - Len(pattern)) :
                     SubSeq(t, i + 1, i + Len(pattern)) = pattern}
    IN  IF hits = {} THEN NoMatch ELSE CHOOSE i \in hits : \A j \in hits : i <= j

\* _find_next on the widget state w: the match it found and the widget after
FindNextIn(w, needle) ==
    LET start_index == PlusChars(w.text, w.ins, 1)
        fwd == Search(w.text, needle, start_index)
        idx == IF fwd # NoMatch THEN fwd ELSE Search(w.text, needle, 0)
        end_idx == PlusChars(w.text, idx, Len(needle))
    IN  IF needle = <<>> \/ idx = NoMatch
        THEN [found |-> NoMatch, w |-> w]
        ELSE [found |-> idx,
              w |-> [w EXCEPT !.sel = w.sel \cup ((idx + 1)..end_idx), !.ins = end_idx]]

\* the Find Next button
FindNext(needle) ==
    LET r == FindNextIn(Widget, needle)
    IN  /\ ~destroyed
        /\ text' = r.w.text
        /\ insert' = r.w.ins
        /\ sel' = r.w.sel
        /\ edit_hist' = [NoEdit EXCEPT !.needle = needle, !.before = text, !.found = r.found]
        /\ last' = NoOp("find_next")
        /\ UNCHANGED <<match_tag, change_scheduled, change_due, since_event, shellVars>>

\* the replacement _replace_one makes before it looks for the next match
ReplaceSelected(w, needle, repl) ==
    IF w.sel # {} /\ SubSeq(w.text, SelFirst(w) + 1, SelLast(w)) = needle
    THEN LET sel_start == SelFirst(w)
             u == TkInsert(TkDelete(w, sel_start, SelLast(w)), sel_start, repl)
         IN  [u EXCEPT !.ins = PlusChars(u.text, sel_start, Len(repl))]
    ELSE w

\* the Replace button; the widget raises <<Modified>> when the buffer changed
ReplaceOne(needle, repl) ==
    LET u == IF needle = <<>> THEN Widget ELSE ReplaceSelected(Widget, needle, repl)
        r == FindNextIn(u, needle)
    IN  /\ ~destroyed
        /\ IF u.text # text
           THEN EventChanged(r.w) /\ since_event' = 0
           ELSE /\ text' = r.w.text
                /\ insert' = r.w.ins
                /\ sel' = r.w.sel
                /\ UNCHANGED <<match_tag, change_scheduled, change_due, since_event>>
        /\ edit_hist' = [NoEdit EXCEPT !.needle = needle, !.repl = repl, !.before = text,
                                       !.found = r.found]
        /\ last' = NoOp("replace_one")
        /\ UNCHANGED shellVars

\* the matches _replace_all collects, first to last: each one as the line and
\* the column of the index string "line.col" that search returned
RECURSIVE CollectRanges(_, _, _)
CollectRanges(t, needle, idx) ==
    LET hit == Search(t, needle, idx)
    IN  IF hit = NoMatch THEN <<>>
        ELSE <<[line |-> LineOf(t, hit), col |-> hit - LineStart(t, LineOf(t, hit))]>>
             \o CollectRanges(t, needle, PlusChars(t, hit, Len(needle)))

\* the replacements of _replace_all, from the last range to the first; each
\* index string is resolved in the buffer as it is then
RECURSIVE ReplaceRanges(_, _, _, _)
ReplaceRanges(w, ranges, needle, repl) ==
    IF ranges = <<>> THEN w
    ELSE LET rg == ranges[Len(ranges)]
             start == LineCol(w.text, rg.line, rg.col)
             end == PlusChars(w.text, start, Len(needle))
         IN  ReplaceRanges(TkInsert(TkDelete(w, start, end), start, repl),
                           SubSeq(ranges, 1, Len(ranges) - 1), needle, repl)

\* the Replace All button: _replace_all; the widget raises <<Modified>> when
\* the buffer changed
ReplaceAll(needle, repl) ==
    LET ranges == CollectRanges(text, needle, 0)
        v == ReplaceRanges(Widget, ranges, needle, repl)
        last_start == ranges[Len(ranges)]
        u == IF needle = <<>> \/ ranges = <<>> THEN Widget
             ELSE [v EXCEPT !.ins = PlusChars(v.text,
                                              LineCol(v.text, last_start.line, last_start.col),
                                              Len(repl))]
    IN  /\ ~destroyed
        /\ IF u.text # text
           THEN EventChanged(u) /\ since_event' = 0
           ELSE /\ text' = u.text
                /\ insert' = u.ins
                /\ sel' = u.sel
                /\ UNCHANGED <<match_tag, change_scheduled, change_due, since_event>>
        /\ edit_hist' = [NoEdit EXCEPT !.needle = needle, !.repl = repl, !.before = text]
        /\ last' = NoOp("replace_all")
        /\ UNCHANGED shellVars

\* a drag with the mouse selects the characters between a and b and leaves the
\* caret at b; <ButtonRelease-1> then runs _event_changed
SelectRange(a, b) ==
    /\ ~destroyed
    /\ 0 <= a /\ a < b /\ b <= Len(text)
    /\ EventChanged([text |-> text, ins |-> b, sel |-> (a + 1)..b])
    /\ since_event' = 0
    /\ last' = NoOp("select")
    /\ UNCHANGED <<edit_hist, shellVars>>

\* _get_selection_lines: the lines of sel.first and sel.last, or the line of
\* the caret when nothing is selected
GetSelectionLines(w) ==
    IF w.sel = {}
    THEN <<LineOf(w.text, w.ins), LineOf(w.text, w.ins)>>
    ELSE <<LineOf(w.text, SelFirst(w)), LineOf(w.text, SelLast(w))>>

\* re.match(r"[ \t]*", l).end(): the length of the leading whitespace
RECURSIVE LeadLen(_)
LeadLen(l) ==
    IF l # <<>> /\ Head(l) \in {" ", "\t"} THEN 1 + LeadLen(Tail(l)) ELSE 0

\* l.strip().startswith("%%")
Commented(l) ==
    LET k == LeadLen(l)
    IN  k + 2 <= Len(l) /\ l[k + 1] = "%" /\ l[k + 2] = "%"

\* re.match(r"[ \t]*%%[ ]?", l).end(), 0 when there is no match; a match
\* always starts at the start of the line
MarkerEnd(l) ==
    LET k == LeadLen(l)
    IN  IF ~Commented(l) THEN 0
        ELSE IF k + 3 <= Len(l) /\ l[k + 3] = " " THEN k + 3 ELSE k + 2

\* the loop of _toggle_comment over the lines ln..lastln; lines holds the
\* texts the lines had when the command began
RECURSIVE ToggleLines(_, _, _, _, _, _)
ToggleLines(w, lines, first, ln, lastln, all_commented) ==
    IF ln > lastln THEN w
    ELSE LET line_text == lines[ln - first + 1]
             start == LineStart(w.text, ln)
             u == IF all_commented
                  THEN TkDelete(w, start, PlusChars(w.text, start, MarkerEnd(line_text)))
                  ELSE TkInsert(w, PlusChars(w.text, start, LeadLen(line_text)),
                                <<"%", "%", " ">>)
         IN  ToggleLines(u, lines, first, ln + 1, lastln, all_commented)

\* Ctrl+/ in the editor: _toggle_comment; the key release then runs
\* _event_changed
ToggleComment ==
    LET first == GetSelectionLines(Widget)[1]
        lastln == GetSelectionLines(Widget)[2]
        lines == [i \in 1..(lastln - first + 1) |-> LineText(text, first + i - 1)]
        \* l.strip().startswith("%%") or l.strip() == ""
        all_commented == \A i \in DOMAIN lines :
                             Commented(lines[i]) \/ LeadLen(lines[i]) = Len(lines[i])
    IN  /\ ~destroyed
        /\ EventChanged(ToggleLines(Widget, lines, first, first, lastln, all_commented))
        /\ since_event' = 0
        /\ edit_hist' = [NoEdit EXCEPT !.before = text, !.first = first, !.last = lastln,
                            !.clean = \A i \in DOMAIN lines : ~Commented(lines[i])]
        /\ last' = NoOp("toggle_comment")
        /\ UNCHANGED shellVars

\* typing the character ch: Tk deletes what is selected and inserts ch at the
\* caret; <KeyRelease> then runs _event_changed
TypeChar(ch) ==
    LET w == IF sel = {} THEN Widget
             ELSE [TkDelete(Widget, SelFirst(Widget), SelLast(Widget)) EXCEPT !.sel = {}]
    IN  /\ ~destroyed
        /\ EventChanged(TkInsert(w, w.ins, <<ch>>))
        /\ since_event' = 0
        /\ last' = NoOp("edit")
        /\ UNCHANGED <<edit_hist, shellVars>>

----------------------------------------------------------------------------
(* Initial states: the window after __init__ *)

\* the lists _save_recent_files can have written: at most MaxRecent paths,
\* none twice
StoredLists(P) ==
    {s \in UNION {[1..n -> P] : n \in 0..MaxRecent} : NoDup(s)}

\* the editor holding t with the caret at index c, nothing selected
InitEditor(t, c) ==
    /\ text = t
    /\ insert = c
    /\ sel = {}
    /\ match_tag = HighlightBracketMatch(t, c)
    /\ edit_hist = NoEdit

\* __init__ apart from the editor's buffer and the Theme Manager
InitShell(arr, existing, mmdc) ==
    /\ current_file = None
    /\ title = SetTitle(None)
    /\ dirty = FALSE
    /\ recent_files = LoadRecent(arr, existing)
    /\ change_scheduled = TRUE
    /\ change_due = CHANGE_DELAY
    /\ since_event = 0
    /\ destroyed = FALSE
    /\ mmdc_path = mmdc
    /\ auto_render_var = FALSE
    /\ auto_render_job = None
    /\ timers = {}
    /\ pending_autorender = FALSE
    /\ last_rendered_hash = NoHash
    /\ code_hash_being_rendered = NoHash
    /\ last_png = NoPng
    /\ render_lock = None
    /\ workers = [w \in WorkerIds |-> IdleWorker]
    /\ preview_src = NoImage
    /\ preview = NoPreview
    /\ temp_files = {}
    /\ error_tags = [lines |-> {}, cols |-> {}]
    /\ last = NoOp("init")

\* __init__ without the Theme Manager: recent list loaded from the stored
\* array arr, of which the files in existing still exist; then
\* _new_document(DEFAULT_SAMPLE)
InitBase(arr, existing, mmdc) ==
    /\ InitEditor(NewDocumentText(DEFAULT_SAMPLE), Len(NewDocumentText(DEFAULT_SAMPLE)))
    /\ InitShell(arr, existing, mmdc)

\* __init__ on a machine without theme.json
InitWith(arr, existing, mmdc) ==
    /\ ThemeStart("absent", "default", FALSE)
    /\ InitBase(arr, existing, mmdc)

----------------------------------------------------------------------------
(* Specification of the document life cycle *)

InitDoc ==
    \E arr \in StoredLists(Paths) : \E existing \in SUBSET Paths :
        InitWith(arr, existing, TRUE)

\* The answers that a handler run from the current state can consume: an
\* answer the handler never asks for is fixed, so that no step is drawn twice.
GuardAnswers(resp, sp, ok) ==
    /\ ~dirty => resp = "no"
    /\ (~dirty \/ resp # "yes") => (sp = None /\ ok)
    /\ current_file # None => sp = None
    /\ (current_file = None /\ sp = None) => ok

SaveAnswers(sp, ok) ==
    /\ current_file # None => sp = None
    /\ (current_file = None /\ sp = None) => ok

ReadAnswers(rd, c) == ~rd => c = <<>>

NextDoc ==
    \/ \E p \in Paths, ex \in BOOLEAN, rd \in BOOLEAN, c \in Texts :
           ReadAnswers(rd, c) /\ (~ex => ~rd) /\ OpenRecentFile(p, ex, rd, c)
    \/ \E resp \in Responses, sp \in Paths \cup {None}, ok \in BOOLEAN :
           GuardAnswers(resp, sp, ok) /\ NewDocument(resp, sp, ok)
    \/ \E resp \in Responses, sp \in Paths \cup {None}, ok \in BOOLEAN,
          op \in Paths \cup {None}, rd \in BOOLEAN, c \in Texts :
           /\ GuardAnswers(resp, sp, ok)
           /\ ReadAnswers(rd, c) /\ (op = None => ~rd)
           /\ OpenFile(resp, sp, ok, op, rd, c)
    \/ \E sp \in Paths \cup {None}, ok \in BOOLEAN :
           SaveAnswers(sp, ok) /\ SaveFileCmd(sp, ok)
    \/ \E sp \in Paths \cup {None}, ok \in BOOLEAN :
           (sp = None => ok) /\ SaveFileAsCmd(sp, ok)
    \/ \E resp \in Responses, sp \in Paths \cup {None}, ok \in BOOLEAN :
           GuardAnswers(resp, sp, ok) /\ OnExit(resp, sp, ok)
    \/ ClearRecentFiles
    \/ \E c \in Texts : ApplyExample(c)
    \/ \E t \in Texts : UserEdit(t)
    \/ EmitChange
    \/ \E ex \in BOOLEAN, dest \in Paths \cup {None}, ok \in BOOLEAN :
           (dest = None => ok) /\ ExportPngAs(ex, dest, ok)

SpecDoc == InitDoc /\ [][NextDoc]_vars

----------------------------------------------------------------------------
(* Specification of the recent-files list: many paths, no edits *)

InitRecent ==
    \E arr \in StoredLists(RecentPaths) : \E existing \in SUBSET RecentPaths :
        InitWith(arr, existing, TRUE)

NextRecent ==
    \/ \E op \in RecentPaths : OpenFile("no", None, TRUE, op, TRUE, <<"A">>)
    \/ \E p \in RecentPaths, ex \in BOOLEAN :
           OpenRecentFile(p, ex, ex, IF ex THEN <<"A">> ELSE <<>>)
    \/ \E sp \in RecentPaths : SaveFileAsCmd(sp, TRUE)
    \/ ClearRecentFiles

SpecRecent == InitRecent /\ [][NextRecent]_vars

----------------------------------------------------------------------------
(* Specification of the render pipeline: requests, timers and workers *)

\* the buffer typed in the render specifications
RenderTexts == {<<"A">>}

\* renderer answers of the pipeline specification: one success, two failures
PipelineResults ==
    {r \in Results : \/ r.kind = "timeout"
                     \/ /\ r.kind = "exit" /\ r.stderr = <<>> /\ r.stdout = <<>>
                        /\ (r.rc = 0 => r.png /\ r.img)
                        /\ (r.rc = 1 => ~r.png)}

InitRender == \E mmdc \in BOOLEAN : InitWith(<<>>, {}, mmdc)

NextRender ==
    \/ \E t \in RenderTexts : UserEdit(t)
    \/ EmitChange
    \/ OnAutorenderToggle
    \/ \E locate \in BOOLEAN : (mmdc_path => locate) /\ RenderClicked(locate)
    \/ \E t \in TimerIds, locate \in BOOLEAN : (mmdc_path => locate) /\ AutoRenderFire(t, locate)
    \/ \E w \in WorkerIds : WorkerAcquire(w)
    \/ \E w \in WorkerIds, res \in PipelineResults : WorkerRun(w, res)
    \/ \E w \in WorkerIds : WorkerFollowUp(w)
    \/ \E w \in WorkerIds, id \in TimerIds : WorkerAfter(w, id)
    \/ \E w \in WorkerIds : WorkerAssign(w)
    \/ \E w \in WorkerIds : WorkerRelease(w)

SpecRender == InitRender /\ [][NextRender]_vars

----------------------------------------------------------------------------
(* Specification of the worker's verdict: manual renders, every answer of  *)
(* the renderer                                                            *)

InitWorker == InitWith(<<>>, {}, TRUE)

NextWorker ==
    \/ \E t \in RenderTexts : UserEdit(t)
    \/ RenderClicked(TRUE)
    \/ \E w \in WorkerIds : WorkerAcquire(w)
    \/ \E w \in WorkerIds, res \in Results : WorkerRun(w, res)
    \/ \E w \in WorkerIds : WorkerFollowUp(w)
    \/ \E w \in WorkerIds : WorkerRelease(w)
    \/ SaveFileAsCmd(1, TRUE)

SpecWorker == InitWorker /\ [][NextWorker]_vars

----------------------------------------------------------------------------
(* Properties of the render pipeline *)

\* the worker is between acquiring and releasing the render lock
InCritical(w) == workers[w].pc \in {"locked", "followup", "sched_after", "sched_assign", "release"}

\* C1: at most one render worker is inside the render critical section
\* (lock acquired, not yet released) at any time, whatever the interleaving
\* of Render clicks, auto-render timers and worker threads.
RenderMutualExclusion ==
    \A w1, w2 \in WorkerIds : InCritical(w1) /\ InCritical(w2) => w1 = w2

\* C1 witness: one worker holds the lock while a second thread waits for it
RenderContended ==
    \E w1, w2 \in WorkerIds : workers[w1].pc = "locked" /\ workers[w2].pc = "start"

\* C2: a render request made while an earlier render was started and has not
\* finished is never queued: no worker thread exists for such a request.
NeverQueued ==
    \A w \in WorkerIds : workers[w].pc # "idle" => ~workers[w].busy

\* C3: when a render completes (its worker releases the lock) no deferred
\* auto-render request is left behind: if auto-render is on, the follow-up
\* was scheduled and pending_autorender is cleared, whatever the outcome.
DeferredNeverLost ==
    [][\A w \in WorkerIds :
          (workers[w].pc = "release" /\ workers'[w].pc = "idle")
              => ~(pending_autorender /\ auto_render_var)]_vars

----------------------------------------------------------------------------
(* Properties of the document life cycle *)

\* C4: New, Open and Exit on a dirty document: Cancel leaves text, path and
\* dirty flag unchanged and the action does not happen; Save lets the action
\* proceed exactly when the save returned a path; Discard proceeds and opens
\* no file for writing.  Exit proceeds exactly when the window is destroyed,
\* and a New that does not proceed leaves the buffer alone.
GuardContract ==
    [][(dirty /\ last'.op \in {"new", "open", "exit"}) =>
          /\ last'.resp \in {"cancel", "yes", "no"}
          /\ last'.resp = "cancel" =>
                 /\ UNCHANGED <<text, current_file, dirty>>
                 /\ ~last'.proceeded
          /\ last'.resp = "yes" => (last'.proceeded <=> last'.saved # None)
          /\ last'.resp = "no" => (last'.proceeded /\ ~last'.wrote)
          /\ last'.op = "exit" => (destroyed' <=> last'.proceeded)
          /\ last'.op = "new" =>
                 IF last'.proceeded
                 THEN text' = <<>> /\ current_file' = None
                 ELSE text' = text]_vars

\* C4 witness: New on a dirty document, Save chosen, the write failed and
\* the New was abandoned
GuardSaveFailed ==
    /\ last.op = "new" /\ last.resp = "yes" /\ last.err = "write"
    /\ last.saved = None /\ ~last.proceeded /\ dirty

\* C5: with a dirty document, New, Open and Open Recent change the buffer
\* text or the backing path only if the unsaved-changes guard returned
\* 'proceed'.
GuardBeforeReplace ==
    [][(/\ dirty
        /\ last'.op \in {"new", "open", "open_recent"}
        /\ (text' # text \/ current_file' # current_file)) => last'.proceeded]_vars

\* C6: Save on a document with a backing path: a successful write clears the
\* dirty flag and returns the path; a failed write reports an error, returns
\* no path and leaves dirty flag, path and text unchanged.
SaveContract ==
    [][(current_file # None /\ last'.op = "save") =>
          /\ last'.wrote
          /\ UNCHANGED <<current_file, text>>
          /\ IF last'.err = "none"
             THEN dirty' = FALSE /\ last'.saved = current_file
             ELSE last'.err = "write" /\ last'.saved = None /\ dirty' = dirty]_vars

\* C6 witness: a Save of a dirty document whose write failed
SaveFailedDirty ==
    last.op = "save" /\ last.err = "write" /\ dirty /\ current_file # None

\* C7: a failed read (Open, Open Recent) or write (Save, Save As, Export)
\* leaves text, path, title, dirty flag and recent-files list unchanged.
FailureKeepsState ==
    [][last'.err \in {"read", "write"} =>
          UNCHANGED <<text, current_file, title, dirty, recent_files>>]_vars

----------------------------------------------------------------------------
(* Properties of the recent-files list *)

\* s without the path p, the other paths in their order
Without(s, p) == SelectSeq(s, LAMBDA x : x # p)

\* the step recorded the path last'.path in the list: a file was opened and
\* read, or a Save As destination was chosen
AddedRecent ==
    /\ last'.path # None
    /\ \/ last'.op \in {"open", "open_recent"} /\ last'.err = "none"
       \/ last'.op = "save_as"

\* C8: the recent-files list, loaded from disk and changed by add, clear and
\* remove-missing, holds at most 5 paths and none twice; an add puts the
\* path first, followed by the paths that were listed, in their order and
\* without the oldest ones beyond five, so that re-adding a listed path keeps
\* the length; every other step leaves the list alone, empties it or takes
\* one path out of it.
RecentListContract ==
    /\ [](Len(recent_files) <= 5 /\ NoDup(recent_files))
    /\ [][IF AddedRecent
          THEN LET others == Without(recent_files, last'.path)
               IN  /\ recent_files' # <<>>
                   /\ Head(recent_files') = last'.path
                   /\ Tail(recent_files') =
                          SubSeq(others, 1, IF Len(others) < 4 THEN Len(others) ELSE 4)
                   /\ last'.path \in Range(recent_files)
                          => Len(recent_files') = Len(recent_files)
          ELSE \/ recent_files' = recent_files
               \/ recent_files' = <<>>
               \/ recent_files' = Without(recent_files, last'.path)]_vars

\* C8 witness: a full list after a sixth path was opened, newest first
RecentFullAfterAdd ==
    /\ Len(recent_files) = 5
    /\ last.op = "open" /\ last.err = "none"
    /\ Head(recent_files) = last.path
    /\ Range(recent_files) = 2..6

----------------------------------------------------------------------------
(* Properties of the worker's verdict *)

\* exit status 0, none of the four marker phrases in either stream, and the
\* output image exists
CleanExit(res) ==
    /\ res.kind = "exit"
    /\ res.rc = 0
    /\ \A m \in {"Syntax error in text", "Parse error on line",
                 "Lexical error on line", "Expecting '"} :
           m \notin Range(res.stderr) /\ m \notin Range(res.stdout)
    /\ res.png

\* the worker has run the renderer and has not yet released the lock
AfterRun(w) == workers[w].pc \in {"followup", "sched_after", "sched_assign", "release"}

\* C9: a render is recorded as successful (last image and hash set, preview
\* reloaded from the output when it can be opened) if and only if the
\* renderer exited with status 0, no marker phrase is in stderr or stdout,
\* and the output image exists.
SuccessIffCleanExit ==
    \A w \in WorkerIds : AfterRun(w) =>
        /\ workers[w].recorded <=> CleanExit(workers[w].res)
        /\ workers[w].recorded =>
               /\ last_png = workers[w].out
               /\ last_rendered_hash # NoHash
               /\ workers[w].res.img => preview_src = Image(workers[w].code)
        /\ workers[w].pc # "release" => workers[w].recorded

\* C9 witness: exit status 0 with a marker phrase on standard output only,
\* treated as a failure
SoftFailureSeen ==
    \E w \in WorkerIds :
        /\ workers[w].pc = "release"
        /\ workers[w].res.kind = "exit" /\ workers[w].res.rc = 0 /\ workers[w].res.png
        /\ workers[w].res.stderr = <<>>
        /\ workers[w].res.stdout = <<"Syntax error in text">>
        /\ ~workers[w].recorded

\* C10: the step in which a worker's render fails, and the release that
\* follows it, leave last_png, last_rendered_hash and the previewed image
\* unchanged, for every kind of failure.
FailureKeepsPreview ==
    [][\A w \in WorkerIds :
          (\/ workers[w].pc = "locked" /\ workers'[w].pc # "locked"
                 /\ ~CleanExit(workers'[w].res)
           \/ workers[w].pc = "release" /\ workers'[w].pc = "idle"
                 /\ ~CleanExit(workers[w].res))
              => UNCHANGED <<last_png, last_rendered_hash, preview_src>>]_vars

\* C10 witness: a render that failed for want of an output file, after an
\* earlier render had succeeded
FailedAfterSuccess ==
    \E w \in WorkerIds :
        /\ workers[w].pc = "release"
        /\ workers[w].res.kind = "exit" /\ workers[w].res.rc = 0 /\ ~workers[w].res.png
        /\ last_png # NoPng /\ last_rendered_hash # NoHash /\ preview_src # NoImage

----------------------------------------------------------------------------
(* Specification of the change callback's timing: edits, the clock and the *)
(* timers of the editor and of auto render                                 *)

NextDebounce ==
    \/ \E t \in {<<"A">>, <<"B">>} : UserEdit(t)
    \/ Tick
    \/ change_due = 0 /\ EmitChange
    \/ OnAutorenderToggle

SpecDebounce == InitWorker /\ [][NextDebounce]_vars

----------------------------------------------------------------------------
(* Specification of the Theme Manager *)

InitTheme ==
    /\ \E file \in ThemeFiles, dt \in DiagramThemes, sk \in BOOLEAN : ThemeStart(file, dt, sk)
    /\ InitBase(<<>>, {}, TRUE)

NextTheme ==
    \/ \E o \in SaveOutcomes : ToggleTheme(o)
    \/ \E n \in ThemeNames, o \in SaveOutcomes : SetTheme(n, o)
    \/ \E v \in DiagramThemes : OnDiagramThemeSelected(v)
    \/ \E b \in BOOLEAN : OnSketchToggled(b)
    \/ \E file \in ThemeFiles, dt \in DiagramThemes, sk \in BOOLEAN :
           (file = theme_file \/ file \notin ThemeNames) /\ ThemeManagerInit(file, dt, sk)

SpecTheme == InitTheme /\ [][NextTheme]_vars

----------------------------------------------------------------------------
(* Specification of the preview pane: images and canvases of several sizes *)

NextView ==
    \/ \E c \in RenderTexts, size \in ImageSizes : Display(c, size)
    \/ ResetView
    \/ \E size \in CanvasSizes : OnResize(size)
    \/ \E f \in {ZoomIn, ZoomOut} : ZoomAt(f)

SpecView == InitWorker /\ [][NextView]_vars

----------------------------------------------------------------------------
(* Properties of the temporary renderer input files *)

\* C11: at most one temporary renderer input file written by the application
\* exists at a time, and none outlives its request: no file is left that no
\* live render names.
TempFileBounded ==
    /\ Cardinality(temp_files) <= 1
    /\ Stale \notin temp_files

----------------------------------------------------------------------------
(* Properties of the editor's change callback *)

\* C12: the change callback is debounced on the last event: it is invoked
\* 250 ms after the last edit event of a burst and not earlier, so never
\* while edit events keep arriving less than 250 ms apart.
DebouncedOnLastEvent ==
    [][(change_scheduled /\ ~change_scheduled') => since_event >= CHANGE_DELAY]_vars

----------------------------------------------------------------------------
(* Properties of New *)

\* C13: every New action that passes the guard clears the backing path and
\* leaves the editor holding the default sample diagram followed by the
\* blank trailer line.
NewLoadsSample ==
    [][(last'.op = "new" /\ last'.proceeded) =>
          /\ current_file' = None
          /\ text' = <<"S">> \o <<"\n", " ", "\n">>]_vars

----------------------------------------------------------------------------
(* Properties of the Theme Manager *)

\* C14: get-diagram-theme returns the value last given to set-diagram-theme
\* (initially one of default, forest, dark, neutral) and get-sketch-mode the
\* value last given to set-sketch-mode; toggle_theme and set_theme leave the
\* diagram theme and the sketch-mode flag unchanged.
DiagramSettingsKept ==
    /\ [](/\ GetDiagramTheme = theme_hist.dt
          /\ GetDiagramTheme \in {"default", "forest", "dark", "neutral"}
          /\ GetSketchMode = theme_hist.sk)
    /\ [][theme_hist'.op \in {"toggle", "set_theme"} =>
              UNCHANGED <<diagram_theme, sketch_mode>>]_vars

\* C14 witness: the UI theme was toggled to dark while the diagram theme
\* chosen before is forest and sketch mode is on
ToggledWithForest ==
    /\ theme_hist.op = "toggle" /\ current_name = "dark"
    /\ diagram_theme = "forest" /\ sketch_mode

\* C15: toggle_theme switches the UI theme name between light and dark and
\* persists it (the file holds the new name when the write went through), so
\* a second toggle restores the name before the first; a Theme Manager
\* constructed later loads the name the file holds, and light when the file
\* is absent, unreadable or holds an unrecognized value.
ToggleRoundTrip ==
    /\ [](current_name \in {"light", "dark"})
    /\ [][theme_hist'.op = "toggle" =>
              /\ current_name' # current_name
              /\ theme_hist'.saved => theme_file' = current_name'
              /\ theme_hist.op = "toggle" => current_name' = theme_hist.before]_vars
    /\ [][theme_hist'.op = "init" =>
              /\ theme_file' \in {"light", "dark"} => current_name' = theme_file'
              /\ theme_file' \in {"absent", "unreadable", "other"}
                     => current_name' = "light"
              /\ (theme_hist.op \in {"toggle", "set_theme"} /\ theme_hist.saved
                  /\ theme_file' = theme_file) => current_name' = current_name]_vars

\* C15 witness: a Theme Manager constructed after a toggle to dark that was
\* persisted
DarkReloaded ==
    /\ theme_hist.op = "init" /\ theme_hist.before = "dark"
    /\ theme_file = "dark" /\ current_name = "dark"

----------------------------------------------------------------------------
(* Properties of the preview pane *)

\* C16: after any sequence of display, reset-view, canvas-resize and
\* wheel-zoom operations on a loaded image, of any size in a canvas of any
\* size, the preview zoom factor lies in [0.05, 8.0].
ZoomInRange ==
    preview_src # NoImage => (50 <= preview.zoom /\ preview.zoom <= 8000)

----------------------------------------------------------------------------
(* Specification of the Find/Replace dialog *)

MaxFindLen == 3

\* the window after the user typed a buffer of up to n of the characters
\* chars and put the caret somewhere
InitEditing(chars, n) ==
    /\ \E t \in UNION {[1..k -> chars] : k \in 0..n} : \E c \in 0..Len(t) : InitEditor(t, c)
    /\ InitShell(<<>>, {}, TRUE)
    /\ ThemeStart("absent", "default", FALSE)

\* the search strings and the replacements tried
Needles == {<<>>, <<"a">>, <<"a", "b">>}
Replacements == {<<>>, <<"b">>, <<"b", "b">>}

NextFind ==
    \/ \E c \in 0..Len(text) : ButtonRelease(c)
    \/ \E n \in Needles : FindNext(n)
    \/ \E n \in Needles, r \in Replacements : ReplaceOne(n, r)
    \/ \E n \in Needles, r \in Replacements : ReplaceAll(n, r)

SpecFind == InitEditing({"a", "b", "\n"}, MaxFindLen) /\ [][NextFind]_vars

\* the buffer with every occurrence of needle replaced, going left to right
\* and never matching inside a previous match
RECURSIVE ReplacedText(_, _, _)
ReplacedText(t, needle, repl) ==
    IF Len(t) < Len(needle) THEN t
    ELSE IF SubSeq(t, 1, Len(needle)) = needle
         THEN repl \o ReplacedText(SubSeq(t, Len(needle) + 1, Len(t)), needle, repl)
    ELSE <<t[1]>> \o ReplacedText(Tail(t), needle, repl)

\* the index right after the last replacement in ReplacedText, NoMatch when
\* the buffer has no occurrence
RECURSIVE AfterLastReplacement(_, _, _)
AfterLastReplacement(t, needle, repl) ==
    IF Len(t) < Len(needle) THEN NoMatch
    ELSE IF SubSeq(t, 1, Len(needle)) = needle
         THEN LET rest == AfterLastReplacement(SubSeq(t, Len(needle) + 1, Len(t)),
                                               needle, repl)
              IN  Len(repl) + (IF rest = NoMatch THEN 0 ELSE rest)
    ELSE LET rest == AfterLastReplacement(Tail(t), needle, repl)
         IN  IF rest = NoMatch THEN NoMatch ELSE 1 + rest

\* C17: Replace All with a non-empty search string leaves the buffer that
\* replacing the occurrences left to right, without overlaps, gives, and the
\* caret right after the last replacement it inserted.
ReplaceAllLeftToRight ==
    [][(last'.op = "replace_all" /\ edit_hist'.needle # <<>>)
        => /\ text' = ReplacedText(text, edit_hist'.needle, edit_hist'.repl)
           /\ AfterLastReplacement(text, edit_hist'.needle, edit_hist'.repl) # NoMatch
                => insert' = AfterLastReplacement(text, edit_hist'.needle, edit_hist'.repl)]_vars

\* C18: a Find Next that finds a match leaves exactly the match selected and
\* the caret at its end, and a Replace that follows with the same search
\* string replaces that match.
FindNextSelectsMatch ==
    [][/\ (last'.op = "find_next" /\ edit_hist'.found # NoMatch)
          => /\ sel' = (edit_hist'.found + 1)..(edit_hist'.found + Len(edit_hist'.needle))
             /\ insert' = edit_hist'.found + Len(edit_hist'.needle)
       /\ (/\ last.op = "find_next" /\ edit_hist.found # NoMatch
           /\ last'.op = "replace_one" /\ edit_hist'.needle = edit_hist.needle)
          => text' = SubSeq(text, 1, edit_hist.found) \o edit_hist'.repl
                     \o SubSeq(text, edit_hist.found + Len(edit_hist.needle) + 1, Len(text))
      ]_vars

----------------------------------------------------------------------------
(* Specification of the comment toggle *)

MaxCommentLen == 3
MaxToggledLen == 9

NextComment ==
    \/ \E c \in 0..Len(text) : ButtonRelease(c)
    \/ \E a \in 0..Len(text), b \in 0..Len(text) : SelectRange(a, b)
    \/ (Len(text) <= MaxToggledLen /\ ToggleComment)

\* the buffers hold blanks, the marker's character, a letter, line breaks
SpecComment == InitEditing({" ", "%", "A", "\n"}, MaxCommentLen) /\ [][NextComment]_vars

\* C19: when no selected line starts with the comment marker, toggling the
\* comment twice on the same lines gives back the text there was before.
CommentRoundTrip ==
    [][(/\ last.op = "toggle_comment" /\ edit_hist.clean
        /\ last'.op = "toggle_comment"
        /\ edit_hist'.first = edit_hist.first /\ edit_hist'.last = edit_hist.last)
       => text' = edit_hist.before]_vars

----------------------------------------------------------------------------
(* Specification of the bracket match highlight *)

MaxBracketLen == 4

BracketChars == {"(", ")", "[", "]"}

NextBracket ==
    \/ \E c \in 0..Len(text) : ButtonRelease(c)
    \/ \E ch \in BracketChars : (Len(text) < MaxBracketLen /\ TypeChar(ch))

SpecBracket == InitEditing(BracketChars, MaxBracketLen) /\ [][NextBracket]_vars

\* the partner of the bracket at position p of t: the nearest bracket of
\* the other direction and the same kind with as many opening as closing
\* brackets of the kind between the two; NoMatch when there is none
Partner(t, p) ==
    LET fwd == t[p] \in DOMAIN pairs
        open_ch == IF fwd THEN t[p] ELSE revpairs[t[p]]
        close_ch == IF fwd THEN pairs[t[p]] ELSE t[p]
        Balanced(a, b) == Cardinality({i \in (a + 1)..(b - 1) : t[i] = open_ch})
                          = Cardinality({i \in (a + 1)..(b - 1) : t[i] = close_ch})
        cands == IF fwd THEN {q \in (p + 1)..Len(t) : t[q] = close_ch /\ Balanced(p, q)}
                 ELSE {q \in 1..(p - 1) : t[q] = open_ch /\ Balanced(q, p)}
    IN  IF cands = {} THEN NoMatch
        ELSE CHOOSE q \in cands : \A r \in cands : IF fwd THEN q <= r ELSE r <= q

\* C20: after a click or a key that left the caret right after a bracket,
\* the highlight covers the bracket and its partner at the same nesting
\* depth, wherever the pair lies in the buffer, and nothing when the bracket
\* has no partner.
BracketPartnerFound ==
    (/\ last.op \in {"click", "edit"}
     /\ insert >= 1 /\ text[insert] \in (DOMAIN pairs \cup DOMAIN revpairs))
        => match_tag = IF Partner(text, insert) = NoMatch THEN {}
                       ELSE {insert, Partner(text, insert)}

----------------------------------------------------------------------------
(* Specification of the Render button's advisory and input file *)

MaxPieces == 3

\* what the buffers are put together from: keywords (stable, capitalised,
\* stable and unstable, unknown), whitespace, a comment marker, a character
\* that starts no token, front matter and the start of an init block
DiagramPieces ==
    {<<"p", "i", "e">>, <<"P", "i", "e">>, <<"r", "a", "d", "a", "r">>, <<"x">>,
     <<" ">>, <<"\n">>, <<"%", "%">>, <<"(">>, <<"-", "-", "-">>,
     <<"%", "%", "{", "i", "n", "i", "t", ":">>}

\* the window with a buffer of up to MaxPieces pieces, sketch mode on or off
InitInput ==
    LET RECURSIVE Concat(_)
        Concat(ps) == IF ps = <<>> THEN <<>> ELSE Head(ps) \o Concat(Tail(ps))
    IN  /\ \E ps \in UNION {[1..n -> DiagramPieces] : n \in 0..MaxPieces} :
               InitEditor(Concat(ps), Len(Concat(ps)))
        /\ InitShell(<<>>, {}, TRUE)
        /\ \E sk \in BOOLEAN : ThemeStart("absent", "default", sk)

NextInput ==
    \/ RenderClicked(TRUE)
    \/ \E w \in WorkerIds : WorkerAcquire(w)
    \/ \E enabled \in BOOLEAN : (enabled # sketch_mode /\ OnSketchToggled(enabled))

SpecInput == InitInput /\ [][NextInput]_vars

\* the claim's condition for an advisory: the first line that is neither
\* blank nor a comment has a leading token (letters, digits, "_.:-", made
\* lowercase) that is not a stable keyword or is an unstable one
AdvisoryDue(t) ==
    LET IsTokenChar(c) == c \in {"p", "i", "e", "r", "a", "d", "x", "n", "t", "P", ":", "-"}
        Low(c) == IF c = "P" THEN "p" ELSE c
        candidates == {n \in 1..(Cardinality(Newlines(t)) + 1) :
                          LET l == Strip(LineText(t, n))
                          IN  l # <<>> /\ ~(Len(l) >= 2 /\ SubSeq(l, 1, 2) = <<"%", "%">>)}
        n1 == CHOOSE n \in candidates : \A k \in candidates : n <= k
        l1 == Strip(LineText(t, n1))
        len == Cardinality({k \in 1..Len(l1) : \A i \in 1..k : IsTokenChar(l1[i])})
        token == [i \in 1..len |-> Low(l1[i])]
    IN  candidates # {} /\ (token \notin STABLE_TYPES \/ token \in POTENTIALLY_UNSTABLE)

\* C21: a Render click shows a diagram-type advisory exactly when the
\* lowercase leading token of the first non-blank, non-comment line is absent
\* from the stable set or present in the unstable set (the render it starts
\* carries the advisory it showed).
AdvisoryExactlyWhenDue ==
    [][\A w \in WorkerIds : (workers[w].pc = "idle" /\ workers'[w].pc = "start") =>
          ((workers'[w].adv # "none") <=> AdvisoryDue(text))]_vars

----------------------------------------------------------------------------
(* Specification of the renderer's diagnostics *)

MaxWords == 3

\* answers of the renderer: a failure with up to MaxWords words on standard
\* error and at most a number on standard output, or a success
DiagResults ==
    {[kind |-> "exit", rc |-> 1, stderr |-> e, stdout |-> o, png |-> FALSE, img |-> FALSE] :
        e \in UNION {[1..n -> {"Parse error on line", "Lexical error on line", "line",
                               "column", "2", "10"}] : n \in 0..MaxWords},
        o \in {<<>>, <<"2">>, <<"10">>}}
    \cup {[NoResult EXCEPT !.kind = "exit", !.png = TRUE]}

\* one render at a time: the user waits for the end of a render
NextDiag ==
    \/ (~RenderAlive /\ RenderClicked(TRUE))
    \/ \E w \in WorkerIds : WorkerAcquire(w)
    \/ \E w \in WorkerIds, res \in DiagResults : WorkerRun(w, res)
    \/ \E w \in WorkerIds : WorkerFollowUp(w)
    \/ \E w \in WorkerIds : WorkerRelease(w)

SpecDiag == InitWorker /\ [][NextDiag]_vars

\* worker w has just left the try block with a renderer that reported errors
FailedWithDiagnostics(w) ==
    /\ workers[w].pc = "release"
    /\ workers[w].res.kind = "exit"
    /\ (workers[w].res.rc # 0 \/ SoftError(workers[w].res))

\* the items the claim asks for, for the outputs stderr and stdout
ItemsAsClaimed(items, stderr, stdout) ==
    LET full == stderr \o <<"\n">> \o stdout
        Value(word) == IF word = "2" THEN 2 ELSE 10
        IsNumber(i) == i \in 1..Len(full) /\ full[i] \in {"2", "10"}
        \* the place of the number that follows word i after whitespace
        Arg(i) == IF IsNumber(i + 1) THEN i + 1 ELSE i + 2
        HasArg(i) == IsNumber(i + 1) \/ (i + 1 <= Len(full) /\ full[i + 1] = "\n"
                                         /\ IsNumber(i + 2))
        starts == {i \in 1..Len(full) :
                      full[i] \in {"Parse error on line", "Lexical error on line"}}
        mentions == {i \in 1..Len(full) : full[i] \in {"line"} \cup {full[j] : j \in starts}
                                          /\ HasArg(i)}
        \* the mentions that are the first one after the start of an error
        errors == {q \in mentions : \E p \in starts :
                      p <= q /\ \A m \in mentions : ~(p <= m /\ m < q)}
        wanted == {Value(full[Arg(i)]) : i \in IF errors # {} THEN errors ELSE mentions}
        columns == {i \in 1..Len(full) : full[i] = "column" /\ HasArg(i)}
    IN  /\ {items[i].line : i \in DOMAIN items} = wanted
        /\ \A i, j \in DOMAIN items : i < j => items[i].line < items[j].line
        /\ \A i \in DOMAIN items :
              IF columns = {} THEN items[i].col = NoMatch
              ELSE items[i].col = Value(full[Arg(CHOOSE c \in columns :
                                                    \A d \in columns : c <= d)])

\* C22: the error items parsed from a failed render's output are the
\* distinct line numbers of its "Parse error"/"Lexical error ... line N"
\* mentions (of all "line N" mentions when there is none of those), in
\* ascending order, each with the first "column C" value or with no column.
ParsedItemsAsClaimed ==
    \A w \in WorkerIds : FailedWithDiagnostics(w) =>
        ItemsAsClaimed(workers[w].items, workers[w].res.stderr, workers[w].res.stdout)

\* a failed render gave two items with a column
TwoItemsParsed ==
    \E w \in WorkerIds :
        /\ FailedWithDiagnostics(w)
        /\ Len(workers[w].items) = 2
        /\ "Parse error on line" \in Range(workers[w].res.stderr)

\* C27: after a render that failed with diagnostics the editor's error
\* markers are exactly those of the items parsed from its output.
MarkersAreThoseOfItems ==
    \A w \in WorkerIds : FailedWithDiagnostics(w) =>
        /\ error_tags.lines = {workers[w].items[i].line : i \in DOMAIN workers[w].items}
        /\ error_tags.cols =
              {<<workers[w].items[i].line, workers[w].items[i].col - 1>> :
                  i \in {j \in DOMAIN workers[w].items : workers[w].items[j].col # NoMatch}}


----------------------------------------------------------------------------
(* Properties of the auto-render timer *)

\* C23: at every moment at most one auto-render timer is pending, whether
\* _schedule_autorender was called by the edit callback, by the auto-render
\* checkbox or by the render worker's follow-up.
OneAutoRenderTimer == Cardinality(timers) <= 1


\* C30: while the auto-render checkbox is off no auto-render timer is
\* pending, so that no render starts without a manual Render click: neither
\* switching it off, nor a settled-edit callback, nor the completion of an
\* in-flight render leaves a timer behind.
NoTimerWhileAutoRenderOff == ~auto_render_var => timers = {}

----------------------------------------------------------------------------
(* Properties of the dirty flag *)

\* the last step loaded a document (New, Open, Open Recent) into the buffer
JustLoaded ==
    \/ last.op = "new" /\ last.proceeded
    \/ last.op = "open" /\ last.proceeded /\ last.path # None /\ last.err = "none"
    \/ last.op = "open_recent" /\ last.err = "none"

\* C24: the dirty flag is true only if the user has changed the buffer text
\* since the last successful save or document load: a step that follows a
\* load at once and is no user edit leaves a clean document clean.
DirtyOnlyAfterUserEdit ==
    [][(JustLoaded /\ ~dirty /\ text' = text) => ~dirty']_vars


----------------------------------------------------------------------------
(* Properties of the renderer's input file *)

\* the hand-drawn configuration header for the active diagram theme
HandDrawnHeader ==
    <<"---\n", "config:\n", "  look: handDrawn\n", "  theme: ", diagram_theme, "\n", "---\n">>

\* text t has the characters pre right after its leading whitespace
StartsAfterBlanks(t, pre) ==
    \E k \in 0..Len(t) :
        /\ \A i \in 1..k : t[i] \in Whitespace
        /\ k + Len(pre) <= Len(t)
        /\ \A i \in 1..Len(pre) : t[k + i] = pre[i]

\* C25: the text written to the temporary renderer input file is the
\* hand-drawn header followed by the buffer text exactly when sketch mode is
\* on and the buffer text, leading whitespace ignored, starts with neither
\* '---' nor '%%{init:'; otherwise it is the buffer text unmodified.
HeaderExactlyWhenSketch ==
    [][\A w \in WorkerIds :
          (workers[w].pc = "idle" /\ workers'[w].pc = "start")
          => workers'[w].input =
                IF /\ sketch_mode
                   /\ ~StartsAfterBlanks(text, <<"-", "-", "-">>)
                   /\ ~StartsAfterBlanks(text, <<"%", "%", "{", "i", "n", "i", "t", ":">>)
                THEN HandDrawnHeader \o text
                ELSE text]_vars

\* C25 witness: with sketch mode on, a render of a text that begins with
\* whitespace was given the header followed by that text
HeaderWrittenAndWithheld ==
    /\ sketch_mode
    /\ \E w \in WorkerIds :
           /\ workers[w].pc = "start"
           /\ workers[w].code # <<>>
           /\ workers[w].code[1] \in Whitespace
           /\ workers[w].input = HandDrawnHeader \o workers[w].code


----------------------------------------------------------------------------
(* Properties of the record of the last render *)

\* C26: whenever a render succeeds, the recorded last-rendered hash is the
\* hash of the buffer text from which the recorded last-rendered image was
\* produced, also when other render requests were made while that render
\* was in flight.
HashIsOfRenderedText ==
    \A w \in WorkerIds :
        (workers[w].pc \in {"followup", "sched_after", "sched_assign"} /\ workers[w].recorded)
            => (last_png = workers[w].out /\ last_rendered_hash = Hash(workers[w].code))


----------------------------------------------------------------------------
(* Specification of the worker's progress: every outcome of a render, the  *)
(* worker threads keep running                                             *)

\* one answer of the renderer for every way a worker can end: success,
\* diagnostics, no output file, timeout, no executable, no input file, any
\* other exception
OutcomeResults ==
    {[NoResult EXCEPT !.kind = k] : k \in {"missing_input", "timeout", "notfound", "exc"}}
    \cup {[NoResult EXCEPT !.kind = "exit", !.png = TRUE, !.img = TRUE],
          [NoResult EXCEPT !.kind = "exit"],
          [NoResult EXCEPT !.kind = "exit", !.rc = 1, !.stderr = <<"Parse error on line">>]}

\* manual renders of a buffer that the user edits, with auto-render off
NextProgress ==
    \/ \E t \in RenderTexts : UserEdit(t)
    \/ RenderClicked(TRUE)
    \/ \E w \in WorkerIds : WorkerAcquire(w)
    \/ \E w \in WorkerIds, res \in OutcomeResults : WorkerRun(w, res)
    \/ \E w \in WorkerIds : WorkerFollowUp(w)
    \/ \E w \in WorkerIds : WorkerRelease(w)

\* a thread that can take a step takes one: subprocess.run has a timeout
SpecProgress ==
    /\ InitWorker
    /\ [][NextProgress]_vars
    /\ \A w \in WorkerIds :
           /\ WF_vars(\E res \in OutcomeResults : WorkerRun(w, res))
           /\ WF_vars(WorkerFollowUp(w))
           /\ WF_vars(WorkerRelease(w))

----------------------------------------------------------------------------
(* Properties of repeated searches *)

\* the occurrence of needle in t that follows the one at index f in document
\* order, the first one after the last
NextOccurrence(t, needle, f) ==
    LET occ == {i \in 0..(Len(t) - Len(needle)) : SubSeq(t, i + 1, i + Len(needle)) = needle}
        later == {i \in occ : i > f}
        from == IF later # {} THEN later ELSE occ
    IN  CHOOSE i \in from : \A j \in from : i <= j

\* C29: repeated Find Next with an unchanged search string and buffer visits
\* every occurrence in document order, wrapping from the last to the first
\* and skipping none: a Find Next that follows a Find Next finds the
\* occurrence after the one found before.
FindNextVisitsAll ==
    [][(/\ last.op = "find_next" /\ edit_hist.found # NoMatch
        /\ last'.op = "find_next" /\ edit_hist'.needle = edit_hist.needle)
       => edit_hist'.found = NextOccurrence(text, edit_hist.needle, edit_hist.found)]_vars

====
